---- MODULE Spec2Model ----
(***************************************************************************)
(* Model of the QA framework's stateful helpers:                           *)
(*   utils/auth.py        AuthToken, AuthManager (the token cache)         *)
(*   utils/api_client.py  APIClient (a requests session with a urllib3     *)
(*                        Retry policy mounted on it)                      *)
(*   utils/config.py      the tenant registry                              *)
(*   pages/base_page.py, pages/login_page.py   page objects over a         *)
(*                        Playwright page                                  *)
(*   conftest.py, tests/  the cleanup that follows a test scenario         *)
(*                                                                         *)
(* Python values are encoded as follows.                                   *)
(*   str            a TLA+ string; bool(s) is s # ""                       *)
(*   Optional[x]    a sequence: <<>> is None, <<v>> is the value v         *)
(*   dict           a function; d.get(k, default) is Get(d, k, default)    *)
(*   URL            the sequence of its "/"-separated parts after the      *)
(*                  scheme and host, which form the first part; a trailing *)
(*                  "/" is a trailing empty part                           *)
(*   time.time()    the variable now, in whole seconds since the run began *)
(*                                                                         *)
(* Every handler runs at one instant: a call that takes d seconds behaves  *)
(* as Tick(d) followed by the call, because a cache entry that is not      *)
(* fresh at time t is not fresh at t + d either.                           *)
(***************************************************************************)
EXTENDS Integers, Sequences, FiniteSets, TLC

VARIABLES
    cache,          \* AuthManager._token_cache: (tenant_id, email) -> AuthToken
    now,            \* time.time()
    calls,          \* AuthManager / AuthToken methods invoked so far
    last,           \* what the latest method invocation was and did
    req,            \* the APIClient call in flight or just finished
    client,         \* the APIClient object: base_url, tenant_id, headers
    clientLast,     \* what the latest call on the client was and found
    page,           \* what the browser page shows: URL, visible elements, text
    ui,             \* the page-object call in progress or just finished
    run,            \* the test scenario being run: its body and its cleanup
    dash,           \* the dashboard's project cards and the latest check of them
    fx,             \* the test item being run: its fixtures and browser contexts
    flows,          \* the concurrent flows: each one's call on the cache so far
    fetched,        \* the (key, token) pairs the flows got from the auth endpoint
    sent,           \* the latest request the client addressed: operation and URL
    mgr             \* the AuthManager objects and the latest call on one of them

authVars == <<cache, now, calls, last>>
apiVars == <<req, client, clientLast>>
pageVars == <<page, ui>>
runVars == <<run>>
dashVars == <<dash>>
fixtureVars == <<fx>>
flowVars == <<flows, fetched>>
urlVars == <<sent>>
managerVars == <<mgr>>
otherVars == <<dashVars, fixtureVars, flowVars, urlVars, managerVars>>
vars == <<cache, now, calls, last, req, client, clientLast, page, ui, run,
          otherVars>>

(***************************************************************************)
(* Bounds of the model.                                                    *)
(***************************************************************************)
MaxCalls == 3
MaxTicks == 2

(***************************************************************************)
(* Program constants.                                                      *)
(***************************************************************************)
EXPIRY_BUFFER_SECONDS == 300
DefaultExpiresIn == 3600
DummyLifetime == 3600

\* The model's clock advances in steps of this many seconds.  The server
\* issues tokens that live five or ten minutes, or names no expires_in at all.
TickSeconds == EXPIRY_BUFFER_SECONDS
ShortExpiresIn == 2 * EXPIRY_BUFFER_SECONDS
ExpiresIns == {EXPIRY_BUFFER_SECONDS, ShortExpiresIn}

None == <<>>
Some(v) == <<v>>

Get(d, k, default) == IF k \in DOMAIN d THEN d[k] ELSE default

(***************************************************************************)
(* The tenant registry and the users the model's test driver logs in as.   *)
(***************************************************************************)
Tenants == {"company1", "company2"}
Passwords == {"password123", "wrong"}

\* The (tenant_id, email) pairs the test driver logs in as.
Users == { <<t, "admin@" \o t \o ".com">> : t \in Tenants }

\* Config.TENANTS: each tenant's admin is admin@<tenant>.com, password123.
ValidCredentials(t, e, p) == e = "admin@" \o t \o ".com" /\ p = "password123"

(***************************************************************************)
(* AuthToken                                                               *)
(***************************************************************************)
AuthToken(a, r, x, t, e) ==
    [access_token |-> a, refresh_token |-> r, expires_at |-> x,
     tenant_id |-> t, user_email |-> e]

\* Mutant of is_expired: the instant of expiry still counts as unexpired.
is_expired_boundary_open(tok, t) == t > tok.expires_at

is_expired(tok, t) == t >= tok.expires_at

is_valid(tok, t) == tok.access_token # "" /\ ~ is_expired(tok, t)

(***************************************************************************)
(* The auth endpoint, as the client sees it.  A login or refresh exchange  *)
(* ends in one of three ways: a 2xx response carrying a JSON object, a     *)
(* 4xx/5xx response (raise_for_status raises HTTPError), or no response    *)
(* (ConnectionError, Timeout).  Both failures are RequestException.        *)
(***************************************************************************)
AccessTokens == {"tok1"}
RefreshTokens == {"r1"}

Body(a, r, x) ==
    [k \in (IF a = None THEN {} ELSE {"access_token"})
           \cup (IF r = None THEN {} ELSE {"refresh_token"})
           \cup (IF x = None THEN {} ELSE {"expires_in"}) |->
        CASE k = "access_token" -> a[1]
          [] k = "refresh_token" -> r[1]
          [] k = "expires_in" -> x[1]]

\* A full body for a short-lived token, a body with the access token alone,
\* and an empty JSON object.
ResponseBodies ==
    { Body(Some(a), Some(r), Some(x)) :
          a \in AccessTokens, r \in RefreshTokens, x \in ExpiresIns }
      \cup { Body(Some(a), None, None) : a \in AccessTokens }
      \cup { Body(None, None, None) }

Exchange(outcome, data) == [outcome |-> outcome, data |-> data]

FailedExchanges ==
    { Exchange(o, Body(None, None, None)) : o \in {"http_error", "transport_error"} }

\* POST /auth/login: the server accepts only valid credentials.
LoginExchanges(t, e, p) ==
    FailedExchanges \cup
        (IF ValidCredentials(t, e, p)
            THEN { Exchange("ok", d) : d \in ResponseBodies } ELSE {})

\* POST /auth/refresh
RefreshExchanges == FailedExchanges \cup { Exchange("ok", d) : d \in ResponseBodies }

\* Mutant of IsRequestException: an HTTP error status is not caught.
IsRequestException_transport_only(x) == x.outcome = "transport_error"

\* except requests.RequestException: HTTPError from raise_for_status as well
\* as ConnectionError and Timeout.
IsRequestException(x) == x.outcome \in {"http_error", "transport_error"}

(***************************************************************************)
(* AuthManager                                                             *)
(***************************************************************************)
EmptyCache == [k \in {} |-> None]

Put(c, k, v) == [x \in DOMAIN c \cup {k} |-> IF x = k THEN v ELSE c[x]]

\* Mutant of Remove: every entry goes, not only the key's.
Remove_whole_cache(c, k) == [x \in {} |-> c[x]]

Remove(c, k) == [x \in DOMAIN c \ {k} |-> c[x]]

\* Mutant of DummyAccessToken: the placeholder leaves the email out.
DummyAccessToken_no_email(t, e) == "dummy_token_" \o t

DummyAccessToken(t, e) == "dummy_token_" \o t \o "_" \o e

\* Mutant of RequestToken: the token is labelled with the first tenant,
\* whichever tenant it was requested for.
RequestToken_first_tenant(t, e, x, time) ==
    IF IsRequestException(x)
        THEN AuthToken(DummyAccessToken(t, e), None, time + DummyLifetime,
                       "company1", e)
        ELSE AuthToken(Get(x.data, "access_token", ""),
                       IF "refresh_token" \in DOMAIN x.data
                           THEN Some(x.data["refresh_token"]) ELSE None,
                       time + Get(x.data, "expires_in", DefaultExpiresIn),
                       "company1", e)

\* _request_token(tenant_id, email, password), given how the exchange ended.
RequestToken(t, e, x, time) ==
    IF IsRequestException(x)
        THEN AuthToken(DummyAccessToken(t, e), None, time + DummyLifetime, t, e)
        ELSE AuthToken(Get(x.data, "access_token", ""),
                       IF "refresh_token" \in DOMAIN x.data
                           THEN Some(x.data["refresh_token"]) ELSE None,
                       time + Get(x.data, "expires_in", DefaultExpiresIn),
                       t, e)

\* Mutant of UseCached: the expiry buffer is compared the wrong way round.
UseCached_buffer_reversed(c, key, force, time) ==
    /\ ~ force
    /\ key \in DOMAIN c
    /\ is_valid(c[key], time)
    /\ time > c[key].expires_at - EXPIRY_BUFFER_SECONDS

\* Mutant of UseCached: force_refresh is not consulted.
UseCached_ignores_force(c, key, force, time) ==
    /\ key \in DOMAIN c
    /\ is_valid(c[key], time)
    /\ time < c[key].expires_at - EXPIRY_BUFFER_SECONDS

\* Mutant of UseCached: the cache is never consulted.
UseCached_never(c, key, force, time) == FALSE

\* get_token's cache check: the cached token is returned without a request.
\* Mutant of UseCached: any valid token is reused, however close to expiry.
UseCached_without_buffer(c, key, force, time) ==
    /\ ~ force
    /\ key \in DOMAIN c
    /\ is_valid(c[key], time)

UseCached(c, key, force, time) ==
    /\ ~ force
    /\ key \in DOMAIN c
    /\ is_valid(c[key], time)
    /\ time < c[key].expires_at - EXPIRY_BUFFER_SECONDS

\* Mutant of CacheStore: a placeholder token is not stored.
CacheStore_real_tokens_only(c, key, token) ==
    IF token.access_token = DummyAccessToken(token.tenant_id, token.user_email)
        THEN c ELSE Put(c, key, token)

\* Mutant of CacheStore: the store replaces the map by one holding the new
\* entry alone, so the entries stored by others are lost.
CacheStore_alone(c, key, token) == Put(EmptyCache, key, token)

\* self._token_cache[cache_key] = token
CacheStore(c, key, token) == Put(c, key, token)

\* Mutant of CacheClear: nothing is removed.
CacheClear_keeps_entries(c) == c

\* self._token_cache.clear()
CacheClear(c) == EmptyCache

(***************************************************************************)
(* The record of a method invocation, kept in last:                        *)
(*   op, tenant, email, password, force, arg   the method and its inputs   *)
(*   fresh     the cache held a non-empty token for the key, more than     *)
(*             EXPIRY_BUFFER_SECONDS from its expiry, when the call began  *)
(*   removed   the cache keys the call removed                             *)
(*   net       requests the call sent to the auth endpoint                 *)
(*   outcome   how that exchange ended                                     *)
(*   raised    the exception the call raised, "" for a normal return       *)
(*   result    the token returned; ret  the boolean returned               *)
(*   message   the text of the exception raised                            *)
(*   valid     the cache held a token for the key that is_valid() accepted *)
(*   response  the JSON body of the refresh response                       *)
(*   config    the TenantConfig returned; headers  the dict returned       *)
(*   prev      the invocation before this one                              *)
(***************************************************************************)
NoPrev == [op |-> "none", tenant |-> "", email |-> "", removed |-> {}]

NoCall ==
    [op |-> "none", tenant |-> "", email |-> "", password |-> "",
     force |-> FALSE, arg |-> None, fresh |-> FALSE, removed |-> {},
     net |-> 0, outcome |-> "none", raised |-> "", result |-> None,
     ret |-> FALSE, message |-> "", config |-> None, headers |-> None,
     valid |-> FALSE, response |-> None, prev |-> NoPrev]

Prev(l) == [op |-> l.op, tenant |-> l.tenant, email |-> l.email,
            removed |-> l.removed]

Begin(op) == [NoCall EXCEPT !.op = op, !.prev = Prev(last)]

get_token(t, e, p, force) ==
    /\ calls < MaxCalls
    /\ calls' = calls + 1
    /\ LET key == <<t, e>>
           fresh == /\ key \in DOMAIN cache
                    /\ cache[key].access_token # ""
                    /\ now < cache[key].expires_at - EXPIRY_BUFFER_SECONDS
           call == [Begin("get_token") EXCEPT !.tenant = t, !.email = e,
                                  !.password = p, !.force = force,
                                  !.fresh = fresh,
                                  !.valid = (key \in DOMAIN cache
                                               /\ is_valid(cache[key], now))]
       IN  IF UseCached(cache, key, force, now)
             THEN /\ cache' = cache
                  /\ last' = [call EXCEPT !.result = Some(cache[key])]
             ELSE \E x \in LoginExchanges(t, e, p) :
                    LET token == RequestToken(t, e, x, now) IN
                      /\ cache' = CacheStore(cache, key, token)
                      /\ last' = [call EXCEPT !.net = 1, !.outcome = x.outcome,
                                              !.result = Some(token)]
    /\ UNCHANGED <<now, apiVars, pageVars, runVars, otherVars>>

invalidate_token(t, e) ==
    /\ calls < MaxCalls
    /\ calls' = calls + 1
    /\ LET key == <<t, e>> IN
         /\ cache' = IF key \in DOMAIN cache THEN Remove(cache, key) ELSE cache
         /\ last' = [Begin("invalidate_token") EXCEPT !.tenant = t,
                                   !.email = e,
                                   !.removed = {key} \cap DOMAIN cache]
    /\ UNCHANGED <<now, apiVars, pageVars, runVars, otherVars>>

clear_cache ==
    /\ calls < MaxCalls
    /\ calls' = calls + 1
    /\ cache' = CacheClear(cache)
    /\ last' = [Begin("clear_cache") EXCEPT !.removed = DOMAIN cache]
    /\ UNCHANGED <<now, apiVars, pageVars, runVars, otherVars>>

\* Time passes between two calls.
Tick ==
    /\ now < MaxTicks * TickSeconds
    /\ now' = now + TickSeconds
    /\ UNCHANGED <<cache, calls, last, apiVars, pageVars, runVars, otherVars>>

\* Python truth value of an Optional[str].
Truthy(opt) == opt # None /\ opt[1] # ""

\* Mutant of RefreshedToken: the refresh token is taken from the response
\* alone, as _request_token does.
RefreshedToken_drops_refresh(tok, data, time) ==
    AuthToken(Get(data, "access_token", ""),
              IF "refresh_token" \in DOMAIN data
                  THEN Some(data["refresh_token"]) ELSE None,
              time + Get(data, "expires_in", DefaultExpiresIn),
              tok.tenant_id, tok.user_email)

\* The AuthToken built from a successful refresh response.
RefreshedToken(tok, data, time) ==
    AuthToken(Get(data, "access_token", ""),
              IF "refresh_token" \in DOMAIN data
                  THEN Some(data["refresh_token"]) ELSE tok.refresh_token,
              time + Get(data, "expires_in", DefaultExpiresIn),
              tok.tenant_id, tok.user_email)

\* Mutant of RefreshFallback: a placeholder is synthesized, as _request_token
\* does, in place of the caller's token.
RefreshFallback_placeholder(tok) ==
    [tok EXCEPT !.access_token = DummyAccessToken(tok.tenant_id, tok.user_email)]

\* What refresh_token hands back when the exchange raised RequestException.
RefreshFallback(tok) == tok

\* Mutant of HasRefreshToken: only None counts as missing, "" does not.
HasRefreshToken_none_only(tok) == tok.refresh_token # None

\* refresh_token's guard: no refresh token, no request.
HasRefreshToken(tok) == Truthy(tok.refresh_token)

\* Tokens the test driver can pass to a method: one the cache holds, the one
\* its latest call returned, or one it constructs on the spot (a token kept
\* from earlier, or built by hand as the unit tests do).
Constructed(accesses, refreshes, offsets, users) ==
    { AuthToken(a, r, now + d, u[1], u[2]) :
        a \in accesses, r \in refreshes, d \in offsets, u \in users }

CachedTokens == { cache[k] : k \in DOMAIN cache }

RefreshArgs ==
    CachedTokens
      \cup Constructed({"test"}, {None, Some(""), Some("r0")}, {ShortExpiresIn},
                       {<<"company1", "admin@company1.com">>})

\* Tokens built as the unit tests build them (expired 100 seconds ago, expiring
\* in an hour), and tokens expiring at each instant of the model's clock.
TokenArgs ==
    Constructed({"", "test"}, {None},
                {0 - 100, DefaultExpiresIn}
                    \cup { k * TickSeconds - now : k \in 0..MaxTicks },
                {<<"", "">>})

refresh_token(tok) ==
    /\ calls < MaxCalls
    /\ calls' = calls + 1
    /\ LET key == <<tok.tenant_id, tok.user_email>>
           call == [Begin("refresh_token") EXCEPT !.tenant = tok.tenant_id,
                                  !.email = tok.user_email, !.arg = Some(tok)]
       IN  IF ~ HasRefreshToken(tok)
             THEN /\ last' = [call EXCEPT !.raised = "ValueError"]
                  /\ cache' = cache
             ELSE \E x \in RefreshExchanges :
                    IF IsRequestException(x)
                         THEN /\ cache' = cache
                              /\ last' = [call EXCEPT !.net = 1, !.outcome = x.outcome,
                                              !.result = Some(RefreshFallback(tok))]
                         ELSE LET new_token == RefreshedToken(tok, x.data, now) IN
                              /\ cache' = CacheStore(cache, key, new_token)
                              /\ last' = [call EXCEPT !.net = 1, !.outcome = x.outcome,
                                              !.response = Some(x.data),
                                              !.result = Some(new_token)]
    /\ UNCHANGED <<now, apiVars, pageVars, runVars, otherVars>>

\* token.is_valid() and token.is_expired(), called by the test driver.
AuthToken_is_valid(tok) ==
    /\ calls < MaxCalls
    /\ calls' = calls + 1
    /\ last' = [Begin("is_valid") EXCEPT !.arg = Some(tok),
                              !.ret = is_valid(tok, now)]
    /\ UNCHANGED <<cache, now, apiVars, pageVars, runVars, otherVars>>

AuthToken_is_expired(tok) ==
    /\ calls < MaxCalls
    /\ calls' = calls + 1
    /\ last' = [Begin("is_expired") EXCEPT !.arg = Some(tok),
                              !.ret = is_expired(tok, now)]
    /\ UNCHANGED <<cache, now, apiVars, pageVars, runVars, otherVars>>

(***************************************************************************)
(* Config.TENANTS and the AuthManager methods that go through it.          *)
(***************************************************************************)
TenantConfig(t) ==
    [tenant_id |-> t, subdomain |-> t, admin_email |-> "admin@" \o t \o ".com",
     admin_password |-> "password123"]

TENANTS == [t \in {"company1", "company2", "company3"} |-> TenantConfig(t)]

\* Tenant ids a caller passes: the two registered ones the fixtures use and
\* two that are not registered (dict lookup is case sensitive).
TenantIds == Tenants \cup {"unknown_company", "Company1"}

\* Mutant of Config_get_tenant: an unregistered id resolves to the first
\* registered tenant.
Config_get_tenant_default_fallback(tenant_id) ==
    [raised |-> "", message |-> "",
     value |-> Some(IF tenant_id \in DOMAIN TENANTS THEN TENANTS[tenant_id]
                                                  ELSE TENANTS["company1"])]

\* Config.get_tenant: the registry entry, or ValueError.
Config_get_tenant(tenant_id) ==
    IF tenant_id \notin DOMAIN TENANTS
        THEN [raised |-> "ValueError", message |-> "Unknown tenant: " \o tenant_id,
              value |-> None]
        ELSE [raised |-> "", message |-> "", value |-> Some(TENANTS[tenant_id])]

\* The dict get_auth_headers returns.
AuthHeaders(token, tenant_id) ==
    [h \in {"Authorization", "X-Tenant-ID", "Content-Type"} |->
        CASE h = "Authorization" -> "Bearer " \o token.access_token
          [] h = "X-Tenant-ID"   -> tenant_id
          [] h = "Content-Type"  -> "application/json"]

\* get_auth_headers, on behalf of the invocation call: get_token without
\* force_refresh, then the dict.
FetchHeaders(call, t, e, p) ==
    LET key == <<t, e>> IN
    IF UseCached(cache, key, FALSE, now)
      THEN /\ cache' = cache
           /\ last' = [call EXCEPT !.result = Some(cache[key]),
                                   !.headers = Some(AuthHeaders(cache[key], t))]
      ELSE \E x \in LoginExchanges(t, e, p) :
             LET token == RequestToken(t, e, x, now) IN
               /\ cache' = CacheStore(cache, key, token)
               /\ last' = [call EXCEPT !.net = 1, !.outcome = x.outcome,
                                       !.result = Some(token),
                                       !.headers = Some(AuthHeaders(token, t))]

\* AuthManager.get_auth_headers called by the driver.
get_auth_headers(t, e, p) ==
    /\ calls < MaxCalls
    /\ calls' = calls + 1
    /\ FetchHeaders([Begin("get_auth_headers") EXCEPT !.tenant = t, !.email = e,
                                                      !.password = p],
                    t, e, p)
    /\ UNCHANGED <<now, apiVars, pageVars, runVars, otherVars>>

\* Config.get_tenant called by the driver, as the fixtures and unit tests do.
get_tenant(tenant_id) ==
    /\ calls < MaxCalls
    /\ calls' = calls + 1
    /\ LET found == Config_get_tenant(tenant_id) IN
         last' = [Begin("get_tenant") EXCEPT !.tenant = tenant_id,
                           !.raised = found.raised, !.message = found.message,
                           !.config = found.value]
    /\ UNCHANGED <<cache, now, apiVars, pageVars, runVars, otherVars>>

get_tenant_auth(tenant_id) ==
    /\ calls < MaxCalls
    /\ calls' = calls + 1
    /\ LET found == Config_get_tenant(tenant_id)
           call == [Begin("get_tenant_auth") EXCEPT !.tenant = tenant_id]
       IN  IF found.raised # ""
             THEN /\ cache' = cache
                  /\ last' = [call EXCEPT !.raised = found.raised,
                                          !.message = found.message]
             ELSE LET tenant == found.value[1] IN
                  FetchHeaders([call EXCEPT !.email = tenant.admin_email,
                                            !.password = tenant.admin_password,
                                            !.config = found.value],
                               tenant.tenant_id, tenant.admin_email,
                               tenant.admin_password)
    /\ UNCHANGED <<now, apiVars, pageVars, runVars, otherVars>>


(***************************************************************************)
(* APIClient.  Every method sends one request through self.session, whose  *)
(* adapter carries Retry(total=3, backoff_factor=1, status_forcelist=...). *)
(* urllib3 runs that policy: total is the number of retries allowed after  *)
(* the first attempt; every failed attempt decrements it and the request   *)
(* is given up once it drops below zero.  The arguments the constructor    *)
(* call leaves out keep urllib3's defaults: allowed_methods (POST is not   *)
(* among them), respect_retry_after_header = True, raise_on_status = True. *)
(***************************************************************************)
RetryTotal == 3

\* Mutant of StatusForcelist: 503 is left out.
StatusForcelist_without_503 == {429, 500, 502, 504}

\* Retry(status_forcelist=[429, 500, 502, 503, 504])
StatusForcelist == {429, 500, 502, 503, 504}

\* Mutant of AllowedMethods: POST is retried like the idempotent methods.
AllowedMethods_with_post ==
    {"HEAD", "GET", "PUT", "DELETE", "OPTIONS", "TRACE", "POST"}

\* urllib3's defaults for the arguments the constructor call leaves out.
AllowedMethods == {"HEAD", "GET", "PUT", "DELETE", "OPTIONS", "TRACE"}
RetryAfterStatusCodes == {413, 429, 503}

\* The methods of APIClient: HTTP method, whether raise_for_status() is
\* called on the response, and whether response.json() is returned.
Operations ==
    [create_project     |-> [method |-> "POST",   checked |-> TRUE,  json |-> TRUE],
     get_project        |-> [method |-> "GET",    checked |-> TRUE,  json |-> TRUE],
     list_projects      |-> [method |-> "GET",    checked |-> TRUE,  json |-> TRUE],
     update_project     |-> [method |-> "PUT",    checked |-> TRUE,  json |-> TRUE],
     delete_project     |-> [method |-> "DELETE", checked |-> TRUE,  json |-> FALSE],
     add_team_member    |-> [method |-> "POST",   checked |-> TRUE,  json |-> TRUE],
     remove_team_member |-> [method |-> "DELETE", checked |-> TRUE,  json |-> FALSE],
     health_check       |-> [method |-> "GET",    checked |-> FALSE, json |-> FALSE]]

OperationNames == DOMAIN Operations

\* What one attempt can meet: a response (status, whether it carries a
\* Retry-After header, body), no connection, or a connection lost while the
\* response was awaited.
Statuses == {200, 400, 404, 413, 429, 503}
Bodies == {"Proj-7F3A", "Proj-0B1C"}

Response(status, retry_after, body) ==
    [kind |-> "response", status |-> status, retry_after |-> retry_after,
     body |-> body]

ConnectError == [kind |-> "connect_error", status |-> 0, retry_after |-> FALSE, body |-> ""]
ReadError == [kind |-> "read_error", status |-> 0, retry_after |-> FALSE, body |-> ""]

Outcomes ==
    { Response(200, FALSE, b) : b \in Bodies }
      \cup { Response(st, FALSE, "") : st \in Statuses \ {200} }
      \cup { Response(413, TRUE, "") }
      \cup { ConnectError, ReadError }

\* Retry.is_retry(method, status_code, has_retry_after), with total retries left.
IsRetry(method, status, has_retry_after, total) ==
    /\ method \in AllowedMethods
    /\ \/ status \in StatusForcelist
       \/ /\ total # 0
          /\ has_retry_after
          /\ status \in RetryAfterStatusCodes

\* Whether Retry.increment retries after an error, or re-raises it at once.
IsRetriedError(method, outcome) ==
    \/ outcome.kind = "connect_error"
    \/ outcome.kind = "read_error" /\ method \in AllowedMethods

\* Mutant of IsExhausted: one more retry is allowed.
IsExhausted_one_late(total) == total < 0 - 1

\* Retry.is_exhausted(), asked of the decremented policy.
IsExhausted(total) == total < 0

\* Mutant of RaisesForStatus: only server errors raise.
RaisesForStatus_5xx_only(status) == 500 <= status /\ status < 600

\* response.raise_for_status() raises HTTPError.
RaisesForStatus(status) == 400 <= status /\ status < 600

NoRequest ==
    [op |-> "none", phase |-> "idle", total |-> RetryTotal, history |-> <<>>,
     raised |-> "", value |-> None, ret |-> FALSE]

\* A method of the client is called: the request is about to be sent.
Call(op) ==
    /\ req.phase \in {"idle", "done"}
    /\ req' = [NoRequest EXCEPT !.op = op, !.phase = "sending"]
    /\ UNCHANGED <<authVars, client, clientLast, pageVars, runVars, otherVars>>

\* The call ends by raising exc (health_check swallows it and returns False).
Raise(r, exc) ==
    IF r.op = "health_check"
        THEN [r EXCEPT !.phase = "done", !.ret = FALSE]
        ELSE [r EXCEPT !.phase = "done", !.raised = exc]

\* The session hands the response to the method.
Return(r, response) ==
    LET o == Operations[r.op] IN
    IF o.checked
        THEN IF RaisesForStatus(response.status)
                 THEN Raise(r, "HTTPError")
                 ELSE [r EXCEPT !.phase = "done",
                                !.value = IF o.json THEN Some(response.body) ELSE None]
        ELSE [r EXCEPT !.phase = "done", !.ret = (response.status = 200)]

\* The policy is incremented after a failed attempt: retry, or give up.
Increment(r, exc) ==
    IF IsExhausted(r.total - 1)
        THEN Raise(r, exc)
        ELSE [r EXCEPT !.total = r.total - 1]

\* One attempt of the request in flight.
Attempt(outcome) ==
    /\ req.phase = "sending"
    /\ LET method == Operations[req.op].method
           r == [req EXCEPT !.history = Append(req.history, outcome)]
       IN  req' =
             IF outcome.kind = "response"
               THEN IF IsRetry(method, outcome.status, outcome.retry_after, req.total)
                      THEN Increment(r, "RetryError")
                      ELSE Return(r, outcome)
               ELSE IF IsRetriedError(method, outcome)
                      THEN Increment(r, "ConnectionError")
                      ELSE Raise(r, "ConnectionError")
    /\ UNCHANGED <<authVars, client, clientLast, pageVars, runVars, otherVars>>


(***************************************************************************)
(* The APIClient object.  The constructor fills base_url, tenant_id and    *)
(* the header dict; set_token and set_tenant rewrite parts of them.        *)
(***************************************************************************)
RECURSIVE RStripSlash(_)
\* str.rstrip("/") on a URL.
RStripSlash(url) ==
    IF Len(url) > 1 /\ url[Len(url)] = ""
        THEN RStripSlash(SubSeq(url, 1, Len(url) - 1))
        ELSE url

BaseUrls ==
    { <<"https://api.example.com">>, <<"https://api.example.com", "">>,
      <<"http://localhost:8000", "api", "v1">> }

Tokens == {"test_token", "new_token", ""}

\* APIClient.__init__
NewClient(base_url, token, tenant_id) ==
    [base_url  |-> RStripSlash(base_url),
     tenant_id |-> tenant_id,
     headers   |-> [h \in {"Authorization", "X-Tenant-ID", "Content-Type"} |->
                      CASE h = "Authorization" -> "Bearer " \o token
                        [] h = "X-Tenant-ID"   -> tenant_id
                        [] h = "Content-Type"  -> "application/json"]]

\* APIClient.set_token
SetToken(c, token) ==
    [c EXCEPT !.headers = Put(c.headers, "Authorization", "Bearer " \o token)]

\* Mutant of SetTenant: the header is rewritten, the attribute is not.
SetTenant_header_only(c, tenant_id) ==
    [c EXCEPT !.headers = Put(c.headers, "X-Tenant-ID", tenant_id)]

\* APIClient.set_tenant
SetTenant(c, tenant_id) ==
    [c EXCEPT !.tenant_id = tenant_id,
              !.headers = Put(c.headers, "X-Tenant-ID", tenant_id)]

\* The record of a call on the client, kept in clientLast:
\*   op, token, tenant   the call and its arguments
\*   before              the object as the call found it (None for __init__)
\*   supplied            the latest token and tenant id handed to the client
FirstClient == NewClient(<<"https://api.example.com">>, "test_token", "company1")

NoClientCall ==
    [op |-> "__init__", token |-> "test_token", tenant |-> "company1",
     before |-> None,
     supplied |-> [token |-> "test_token", tenant |-> "company1"]]

APIClient_init(base_url, token, tenant_id) ==
    /\ client' = NewClient(base_url, token, tenant_id)
    /\ clientLast' = [op |-> "__init__", token |-> token, tenant |-> tenant_id,
                      before |-> None,
                      supplied |-> [token |-> token, tenant |-> tenant_id]]
    /\ UNCHANGED <<authVars, req, pageVars, runVars, otherVars>>

set_token(token) ==
    /\ client' = SetToken(client, token)
    /\ clientLast' = [op |-> "set_token", token |-> token, tenant |-> "",
                      before |-> Some(client),
                      supplied |-> [clientLast.supplied EXCEPT !.token = token]]
    /\ UNCHANGED <<authVars, req, pageVars, runVars, otherVars>>

set_tenant(tenant_id) ==
    /\ client' = SetTenant(client, tenant_id)
    /\ clientLast' = [op |-> "set_tenant", token |-> "", tenant |-> tenant_id,
                      before |-> Some(client),
                      supplied |-> [clientLast.supplied EXCEPT !.tenant = tenant_id]]
    /\ UNCHANGED <<authVars, req, pageVars, runVars, otherVars>>

(***************************************************************************)
(* Page objects.  The page is the application under test seen through      *)
(* Playwright: at any moment it shows one scene (a URL, the elements that  *)
(* are visible, their text), and the application moves it from scene to    *)
(* scene as time passes.  expect(locator).to_be_visible(timeout=...) and   *)
(* to_contain_text(...) re-test their condition until it holds or the      *)
(* timeout has run out: the first ends the wait normally, the second with  *)
(* AssertionError.  Time inside a wait is counted in steps of PollMs       *)
(* milliseconds; text is a sequence of words and substring search is       *)
(* search for a run of words.                                              *)
(***************************************************************************)
ELEMENT_TIMEOUT == 10000

PollMs == 2500

EMAIL_INPUT == "#email"
PASSWORD_INPUT == "#password"
LOGIN_BUTTON == "#login-btn"
ERROR_MESSAGE == ".error-message"
TWO_FA_INPUT == "#two-fa-code"
TWO_FA_SUBMIT == "#two-fa-submit"

AppUrl(path) == <<"https://app.workflowpro.com", path>>

Scene(url, visible, text) == [url |-> url, visible |-> visible, text |-> text]

NoText == [sel \in {} |-> <<>>]

LoginForm ==
    Scene(AppUrl("login"), {EMAIL_INPUT, PASSWORD_INPUT, LOGIN_BUTTON}, NoText)

LoginError ==
    Scene(AppUrl("login"),
          {EMAIL_INPUT, PASSWORD_INPUT, LOGIN_BUTTON, ERROR_MESSAGE},
          [sel \in {ERROR_MESSAGE} |-> <<"Invalid", "credentials">>])

TwoFaPrompt == Scene(AppUrl("login"), {TWO_FA_INPUT, TWO_FA_SUBMIT}, NoText)

Dashboard == Scene(AppUrl("dashboard"), {}, NoText)

Scenes == {LoginForm, LoginError, TwoFaPrompt, Dashboard}

\* Python's "needle in hay".
Contains(hay, needle) ==
    \E i \in 0..(Len(hay) - Len(needle)) :
        SubSeq(hay, i + 1, i + Len(needle)) = needle

\* "timeout or default": None and 0 both select the default.
EffectiveTimeout(timeout, default) ==
    IF timeout # None /\ timeout[1] # 0 THEN timeout[1] ELSE default

\* The conditions expect() waits for.
ExpectVisible(selector, timeout) ==
    [kind |-> "visible", selector |-> selector, text |-> <<>>, timeout |-> timeout]

ExpectText(selector, text, timeout) ==
    [kind |-> "text", selector |-> selector, text |-> text, timeout |-> timeout]

Holds(w, scene) ==
    IF w.kind = "visible"
        THEN w.selector \in scene.visible
        ELSE /\ w.selector \in DOMAIN scene.text
             /\ Contains(scene.text[w.selector], w.text)

Due(u) == u.waited >= u.wait[1].timeout

\* How a wait that can end now may end: the condition holds, or the timeout
\* has run out; at the very instant of the timeout either is possible.
ExpectOutcomes(u, scene) ==
    { o \in {"matched", "timeout"} :
        /\ o = "matched" => Holds(u.wait[1], scene)
        /\ o = "timeout" => Due(u) }

\* Mutant of IsVisibleResult: the AssertionError of the timed-out wait is not
\* caught.
IsVisibleResult_uncaught(outcome) ==
    IF outcome = "matched" THEN [ret |-> Some(TRUE), raised |-> ""]
                           ELSE [ret |-> None, raised |-> "AssertionError"]

\* is_visible's try/except around the wait.
IsVisibleResult(outcome) == [ret |-> Some(outcome = "matched"), raised |-> ""]

\* The timeout login_with_2fa passes to is_visible.
TwoFaTimeoutMs == 5000

\* Mutant of TwoFaWait: the second-factor wait runs with the default timeout.
TwoFaWait_default_timeout ==
    ExpectVisible(TWO_FA_INPUT, EffectiveTimeout(None, ELEMENT_TIMEOUT))

\* is_visible(self.TWO_FA_INPUT, timeout=5000)
TwoFaWait ==
    ExpectVisible(TWO_FA_INPUT, EffectiveTimeout(Some(TwoFaTimeoutMs), ELEMENT_TIMEOUT))

\* Mutant of UrlContains: the URL has to equal the text.
UrlContains_whole_url(url, text) == url = text

\* text in self.page.url
UrlContains(url, text) == Contains(url, text)

Fill(selector, value) == <<"fill", selector, value>>
Click(selector) == <<"click", selector>>

\* The record of a page-object call, kept in ui:
\*   op, selector, text, timeout   the method and its arguments
\*   phase      "waiting" while the call sits in a wait, "done" afterwards
\*   wait       the condition waited for and its timeout
\*   waited     milliseconds the wait has lasted
\*   matched    the wait ended because its condition held
\*   ret        the boolean returned; raised  the exception raised
\*   actions    the fills and clicks the call performed on the page
NoUi ==
    [op |-> "none", phase |-> "idle", selector |-> "", text |-> <<>>,
     timeout |-> None, wait |-> None, waited |-> 0, matched |-> FALSE,
     ret |-> None, raised |-> "", actions |-> <<>>]

StartWait(op, selector, text, timeout, wait) ==
    [NoUi EXCEPT !.op = op, !.phase = "waiting", !.selector = selector,
                 !.text = text, !.timeout = timeout, !.wait = Some(wait)]

is_visible(selector, timeout) ==
    /\ ui.phase # "waiting"
    /\ ui' = StartWait("is_visible", selector, <<>>, timeout,
                 ExpectVisible(selector, EffectiveTimeout(timeout, ELEMENT_TIMEOUT)))
    /\ UNCHANGED <<page, authVars, apiVars, runVars, otherVars>>

assert_visible(selector, timeout) ==
    /\ ui.phase # "waiting"
    /\ ui' = StartWait("assert_visible", selector, <<>>, timeout,
                 ExpectVisible(selector, EffectiveTimeout(timeout, ELEMENT_TIMEOUT)))
    /\ UNCHANGED <<page, authVars, apiVars, runVars, otherVars>>

assert_text_contains(selector, text, timeout) ==
    /\ ui.phase # "waiting"
    /\ ui' = StartWait("assert_text_contains", selector, text, timeout,
                 ExpectText(selector, text, EffectiveTimeout(timeout, ELEMENT_TIMEOUT)))
    /\ UNCHANGED <<page, authVars, apiVars, runVars, otherVars>>

\* One test of the URL, at the instant of the call.
assert_url_contains(text) ==
    /\ ui.phase # "waiting"
    /\ ui' = [NoUi EXCEPT !.op = "assert_url_contains", !.phase = "done",
                          !.text = text,
                          !.raised = IF UrlContains(page.url, text)
                                         THEN "" ELSE "AssertionError"]
    /\ UNCHANGED <<page, authVars, apiVars, runVars, otherVars>>

\* login_with_2fa up to its wait: login() opens the login page, waits for the
\* form, fills both fields and clicks; then the second-factor wait begins.
\* If the form does not show (the application sends a signed-in browser on
\* to the dashboard), login() raises Playwright's TimeoutError.
login_with_2fa(email, password, code) ==
    /\ ui.phase # "waiting"
    /\ \/ /\ page' = LoginForm
          /\ ui' = [StartWait("login_with_2fa", TWO_FA_INPUT, <<code>>,
                              Some(TwoFaWait.timeout), TwoFaWait)
                      EXCEPT !.actions = << Fill(EMAIL_INPUT, email),
                                            Fill(PASSWORD_INPUT, password),
                                            Click(LOGIN_BUTTON) >>]
       \/ /\ page' = Dashboard
          /\ ui' = [NoUi EXCEPT !.op = "login_with_2fa", !.phase = "done",
                                !.text = <<code>>, !.raised = "TimeoutError"]
    /\ UNCHANGED <<authVars, apiVars, runVars, otherVars>>

\* The call resumes after its wait.
Resume(u, outcome) ==
    LET v == [u EXCEPT !.phase = "done", !.matched = (outcome = "matched")] IN
    CASE u.op = "is_visible" ->
           [v EXCEPT !.ret = IsVisibleResult(outcome).ret,
                     !.raised = IsVisibleResult(outcome).raised]
      [] u.op \in {"assert_visible", "assert_text_contains"} ->
           [v EXCEPT !.raised = IF outcome = "matched" THEN "" ELSE "AssertionError"]
      [] u.op = "login_with_2fa" ->
           LET seen == IsVisibleResult(outcome) IN
           IF seen.raised # ""
             THEN [v EXCEPT !.raised = seen.raised]
             ELSE IF seen.ret[1]
                    THEN [v EXCEPT !.actions = u.actions \o
                              << Fill(TWO_FA_INPUT, u.text[1]), Click(TWO_FA_SUBMIT) >>]
                    ELSE v

\* The wait of the call in progress ends.
ExpectResolves ==
    /\ ui.phase = "waiting"
    /\ \E outcome \in ExpectOutcomes(ui, page) : ui' = Resume(ui, outcome)
    /\ UNCHANGED <<page, authVars, apiVars, runVars, otherVars>>

\* PollMs milliseconds pass and the application shows its next scene.  A
\* wait that can end has ended before that.
PageStep ==
    /\ \E scene \in Scenes : page' = scene
    /\ IF ui.phase = "waiting"
         THEN /\ ExpectOutcomes(ui, page) = {}
              /\ ui' = [ui EXCEPT !.waited = @ + PollMs]
         ELSE ui' = ui
    /\ UNCHANGED <<authVars, apiVars, runVars, otherVars>>

(***************************************************************************)
(* Cleanup after a test scenario.  A scenario runs its body, which passes  *)
(* or fails, and then deletes the projects it tracked: in the teardown     *)
(* half of a fixture, or in the finally block of the test function.  Each  *)
(* delete is APIClient.delete_project, which returns or raises.  pytest    *)
(* reports an exception that leaves a test function as a failure of the    *)
(* test and one that leaves a fixture's teardown as an error of the test.  *)
(***************************************************************************)
MaxTracked == 2

ProjectIds == {"p1", "p2", "p3"}

\* The cleanup paths of the repository:
\*   loop     the path walks a list of ids (otherwise it holds one id)
\*   guarded  the delete sits in try/except Exception: pass
\*   where    "teardown" of a fixture, or "finally" of the test function
CleanupPath(loop, guarded, where) ==
    [loop |-> loop, guarded |-> guarded, where |-> where]

CleanupPaths ==
    [ cleanup_projects            |-> CleanupPath(TRUE, TRUE, "teardown"),
      TestCreateProjectAPI_setup  |-> CleanupPath(TRUE, TRUE, "teardown"),
      TestProjectCRUD_setup       |-> CleanupPath(FALSE, TRUE, "teardown"),
      TestProjectCreationFlow_setup |-> CleanupPath(FALSE, TRUE, "teardown"),
      test_cannot_access_other_tenant_project
                                  |-> CleanupPath(FALSE, FALSE, "finally"),
      test_api_tenant_isolation   |-> CleanupPath(FALSE, TRUE, "finally"),
      test_cross_tenant_project_access_denied
                                  |-> CleanupPath(FALSE, TRUE, "finally") ]

RECURSIVE SeqsOver(_, _)
\* The lists of distinct ids of length n.
SeqsOver(ids, n) ==
    IF n = 0 THEN { <<>> }
    ELSE { Append(q, i) : q \in SeqsOver(ids, n - 1), i \in ids }

Range(q) == { q[i] : i \in DOMAIN q }

\* What a scenario on the path can have tracked when its body ends.
TrackedLists(path) ==
    IF CleanupPaths[path].loop
        THEN { q \in UNION { SeqsOver(ProjectIds, n) : n \in 0..MaxTracked } :
                 Cardinality(Range(q)) = Len(q) }
        ELSE IF path = "TestProjectCreationFlow_setup"
               THEN { <<>> } \cup SeqsOver(ProjectIds, 1)
               ELSE SeqsOver(ProjectIds, 1)

\* delete_project returns ("") or raises.
DeleteOutcomes == {"", "HTTPError", "ConnectionError", "RetryError"}

\* What pytest reports for the scenario.
Reported(body, where, escaped) ==
    IF escaped = "" THEN body
    ELSE IF where = "finally" THEN "failed" ELSE "error"

NoRun ==
    [path |-> "none", phase |-> "idle", body |-> "", tracked |-> <<>>,
     attempted |-> <<>>, raised |-> {}, escaped |-> "", result |-> ""]

\* The cleanup goes on to its next delete, or the scenario is reported.
Proceed(r) ==
    IF r.escaped # "" \/ Len(r.attempted) = Len(r.tracked)
        THEN [r EXCEPT !.phase = "reported",
                       !.result = Reported(r.body, CleanupPaths[r.path].where,
                                           r.escaped)]
        ELSE r

\* The body of a scenario ends, having tracked some projects.
BodyEnds(path, body, tracked) ==
    /\ run.phase \in {"idle", "reported"}
    /\ run' = Proceed([NoRun EXCEPT !.path = path, !.phase = "cleanup",
                                    !.body = body, !.tracked = tracked])
    /\ UNCHANGED <<authVars, apiVars, pageVars, otherVars>>

\* The cleanup deletes the next tracked project.
CleanupDelete(outcome) ==
    /\ run.phase = "cleanup"
    /\ LET id == run.tracked[Len(run.attempted) + 1]
           r  == [run EXCEPT !.attempted = Append(@, id),
                             !.raised = IF outcome = "" THEN @ ELSE @ \cup {id}]
       IN  run' = Proceed(IF outcome # "" /\ ~ CleanupPaths[run.path].guarded
                            THEN [r EXCEPT !.escaped = outcome]
                            ELSE r)
    /\ UNCHANGED <<authVars, apiVars, pageVars, otherVars>>

(***************************************************************************)
(* DashboardPage: the project cards and the tenant isolation check.  The   *)
(* dashboard shows a list of project cards; text_content() of a card is a  *)
(* text (a sequence of words, as elsewhere) or None.                       *)
(***************************************************************************)
MaxCards == 2

oldVars == <<authVars, apiVars, pageVars, runVars>>
dashFrame == <<oldVars, fixtureVars, flowVars, urlVars, managerVars>>

CardTexts ==
    {None, Some(<<>>), Some(<<"Roadmap">>), Some(<<"Company2", "Launch">>),
     Some(<<"Launch", "Company1">>)}

CardLists == UNION { [1..n -> CardTexts] : n \in 0..MaxCards }

\* The markers the isolation test passes, and the empty string.
Markers == {<<"Company2">>, <<"Company1">>, <<>>}

\* card.text_content() or ""
TextOrEmpty(card) == IF card = None THEN <<>> ELSE card[1]

\* The for loop of verify_no_cross_tenant_data from card i on: what it
\* returns and the index of the last card it read.
RECURSIVE ScanCards(_, _, _)
ScanCards_first_card_only(cards, marker, i) ==
    IF i <= Len(cards) /\ Contains(TextOrEmpty(cards[i]), marker)
        THEN [ret |-> FALSE, examined |-> i]
        ELSE [ret |-> TRUE, examined |-> Len(cards)]

ScanCards(cards, marker, i) ==
    IF i > Len(cards)
        THEN [ret |-> TRUE, examined |-> Len(cards)]
        ELSE IF Contains(TextOrEmpty(cards[i]), marker)
                 THEN [ret |-> FALSE, examined |-> i]
                 ELSE ScanCards(cards, marker, i + 1)

NoDash ==
    [cards |-> <<>>, op |-> "", marker |-> <<>>, ret |-> None, raised |-> "",
     examined |-> 0]

\* The application renders a list of project cards.
Render(cards) ==
    /\ dash' = [NoDash EXCEPT !.cards = cards]
    /\ UNCHANGED dashFrame

\* DashboardPage.verify_no_cross_tenant_data.  idle tells whether the wait
\* for network idle ends before the page's default timeout; if it does not
\* the wait raises and nothing is returned.
verify_no_cross_tenant_data(excluded_tenant, idle) ==
    /\ dash' =
         IF ~idle
             THEN [dash EXCEPT !.op = "verify_no_cross_tenant_data",
                               !.marker = excluded_tenant,
                               !.ret = None, !.raised = "TimeoutError",
                               !.examined = 0]
             ELSE LET scan == ScanCards(dash.cards, excluded_tenant, 1)
                  IN  [dash EXCEPT !.op = "verify_no_cross_tenant_data",
                                   !.marker = excluded_tenant,
                                   !.ret = Some(scan.ret), !.raised = "",
                                   !.examined = scan.examined]
    /\ UNCHANGED dashFrame

(***************************************************************************)
(* Browser fixtures.  A test item requests a chain of generator fixtures.  *)
(* pytest sets them up in order, each by running its code up to the        *)
(* yield; runs the test body if every setup returned; and then resumes     *)
(* the fixtures that reached their yield, in reverse order, to run the     *)
(* code after it.  A fixture whose setup raised never reached its yield,   *)
(* so the code after the yield is not run for it.  The body is not run     *)
(* then, and the fixtures set up before it are still torn down.  The       *)
(* browser fixture is session-scoped: browser.close() runs once, after     *)
(* the last test item, and closes every context still open.                *)
(***************************************************************************)
MaxTests == 2

fixtureFrame == <<oldVars, dashVars, flowVars, urlVars, managerVars>>

NEW_CONTEXT == "browser.new_context"
CONTEXT_CLOSE == "context.close"

Fixture(setup, teardown) == [setup |-> setup, teardown |-> teardown]

\* The code of a tenant page fixture before and after its yield.
TenantPageFixture ==
    Fixture(<<NEW_CONTEXT, "context.new_page", "page.set_default_timeout",
              "page.goto", "page.wait_for_selector", "page.fill",
              "page.fill", "page.click", "page.wait_for_url">>,
            <<CONTEXT_CLOSE>>)

Fixtures ==
    [context |-> Fixture(<<NEW_CONTEXT>>, <<CONTEXT_CLOSE>>),
     page |-> Fixture(<<"context.new_page", "page.set_default_timeout">>,
                      <<"page.close">>),
     company1_page |-> TenantPageFixture,
     company2_page |-> TenantPageFixture]

\* The fixture chains a test item can request: page depends on context.
Requests ==
    [context |-> <<"context">>,
     page |-> <<"context", "page">>,
     company1_page |-> <<"company1_page">>,
     company2_page |-> <<"company2_page">>]

\* Closing a context does not fail; every other step may raise.
MayRaise(step) == step # CONTEXT_CLOSE

NoTest ==
    [test |-> "", phase |-> "idle", k |-> 0, step |-> 0, ctx |-> None,
     open |-> {}, made |-> 0, result |-> "", done |-> 0]

Chain(f) == Requests[f.test]

\* pytest picks up the next test item.
StartTest(name) ==
    /\ fx.phase \in {"idle", "finished"}
    /\ fx.done < MaxTests
    /\ fx' = [fx EXCEPT !.test = name, !.phase = "setup", !.k = 1,
                        !.step = 1, !.ctx = None, !.result = ""]
    /\ UNCHANGED fixtureFrame

\* Where the setup goes after a step that returned.
AfterSetupStep(f) ==
    IF f.step < Len(Fixtures[Chain(f)[f.k]].setup)
        THEN [f EXCEPT !.step = @ + 1]
        ELSE IF f.k < Len(Chain(f))
                 THEN [f EXCEPT !.k = @ + 1, !.step = 1]
                 ELSE [f EXCEPT !.phase = "body"]

\* One statement of a fixture's code before its yield.  If it raises the
\* test item is an error, and the fixtures before this one are torn down.
SetupStep(ok) ==
    /\ fx.phase = "setup"
    /\ LET s == Fixtures[Chain(fx)[fx.k]].setup[fx.step]
       IN  /\ ok \/ MayRaise(s)
           /\ fx' =
                IF ~ok
                    THEN [fx EXCEPT !.phase = "teardown", !.k = @ - 1,
                                    !.step = 1, !.result = "error"]
                    ELSE IF s = NEW_CONTEXT
                             THEN AfterSetupStep(
                                      [fx EXCEPT !.made = @ + 1,
                                                 !.ctx = Some(fx.made + 1),
                                                 !.open = @ \cup {fx.made + 1}])
                             ELSE AfterSetupStep(fx)
    /\ UNCHANGED fixtureFrame

\* The test body runs with every fixture set up, and passes or fails.
TestBody(outcome) ==
    /\ fx.phase = "body"
    /\ fx' = [fx EXCEPT !.phase = "teardown", !.k = Len(Chain(fx)),
                        !.step = 1, !.result = outcome]
    /\ UNCHANGED fixtureFrame

\* One statement of a fixture's code after its yield.  If it raises, the
\* rest of this fixture's teardown is skipped and the earlier fixtures are
\* still torn down.
TeardownStep(ok) ==
    /\ fx.phase = "teardown"
    /\ fx.k >= 1
    /\ LET f == Fixtures[Chain(fx)[fx.k]]
           s == f.teardown[fx.step]
           closed == IF ok /\ s = CONTEXT_CLOSE /\ fx.ctx # None
                         THEN [fx EXCEPT !.open = @ \ {fx.ctx[1]}]
                         ELSE fx
       IN  /\ ok \/ MayRaise(s)
           /\ fx' =
                IF ok /\ fx.step < Len(f.teardown)
                    THEN [closed EXCEPT !.step = @ + 1]
                    ELSE [closed EXCEPT !.k = @ - 1, !.step = 1,
                                        !.result = IF ok THEN @ ELSE "error"]
    /\ UNCHANGED fixtureFrame

\* No fixture is left to tear down: the test item is over.
EndTest ==
    /\ fx.phase = "teardown"
    /\ fx.k = 0
    /\ fx' = [fx EXCEPT !.phase = "finished", !.done = @ + 1]
    /\ UNCHANGED fixtureFrame

\* The session ends: the browser fixture's browser.close().
SessionEnd ==
    /\ fx.phase \in {"idle", "finished"}
    /\ fx' = [fx EXCEPT !.phase = "session over", !.open = {}]
    /\ UNCHANGED fixtureFrame

(***************************************************************************)
(* Flows that share the token cache inside one process.  Each flow is a    *)
(* thread that calls get_token, invalidate_token or clear_cache on the     *)
(* AuthManager.  The interpreter runs one dict operation (membership       *)
(* test, subscript read, subscript store, del, clear) at a time and may    *)
(* switch threads between any two of them; nothing in AuthManager holds a  *)
(* lock across them.  is_valid() and the expiry comparison work on the     *)
(* token object already read, and the login request touches no shared      *)
(* state until its result is stored.                                       *)
(***************************************************************************)
MaxFlowCalls == 3

Flows == {1, 2}

flowFrame ==
    <<now, last, apiVars, pageVars, runVars, dashVars, fixtureVars, urlVars,
      managerVars>>

\* not force_refresh and cache_key in self._token_cache
InCache(c, key, force) == ~ force /\ key \in DOMAIN c

\* cached_token.is_valid() and time.time() < expires_at - buffer
FreshEnough(tok, time) ==
    is_valid(tok, time) /\ time < tok.expires_at - EXPIRY_BUFFER_SECONDS

IdleFlow ==
    [op |-> "", pc |-> "idle", key |-> <<"", "">>, password |-> "",
     force |-> FALSE, token |-> None, ret |-> None, raised |-> ""]

FlowIsFree(i) == flows[i].pc \in {"idle", "done"} /\ calls < MaxFlowCalls

FlowBegins(i, op, key, p, force) ==
    [IdleFlow EXCEPT !.op = op, !.pc = "check", !.key = key,
                     !.password = p, !.force = force]

\* Flow i calls get_token(t, e, p, force).
Flow_get_token(i, t, e, p, force) ==
    /\ FlowIsFree(i)
    /\ calls' = calls + 1
    /\ flows' = [flows EXCEPT ![i] = FlowBegins(i, "get_token", <<t, e>>, p, force)]
    /\ UNCHANGED <<cache, fetched, flowFrame>>

\* Flow i calls invalidate_token(t, e).
Flow_invalidate_token(i, t, e) ==
    /\ FlowIsFree(i)
    /\ calls' = calls + 1
    /\ flows' = [flows EXCEPT ![i] = FlowBegins(i, "invalidate_token", <<t, e>>, "", FALSE)]
    /\ UNCHANGED <<cache, fetched, flowFrame>>

\* Flow i calls clear_cache(): one dict.clear().
Flow_clear_cache(i) ==
    /\ FlowIsFree(i)
    /\ calls' = calls + 1
    /\ cache' = CacheClear(cache)
    /\ flows' = [flows EXCEPT ![i] = [IdleFlow EXCEPT !.op = "clear_cache", !.pc = "done"]]
    /\ UNCHANGED <<fetched, flowFrame>>

\* The membership test that opens get_token and invalidate_token.
CheckStep(i) ==
    /\ flows[i].pc = "check"
    /\ flows' = [flows EXCEPT ![i].pc =
                    IF flows[i].op = "get_token"
                        THEN IF InCache(cache, flows[i].key, flows[i].force)
                                 THEN "read" ELSE "request"
                        ELSE IF flows[i].key \in DOMAIN cache
                                 THEN "del" ELSE "done"]
    /\ UNCHANGED <<cache, calls, fetched, flowFrame>>

\* cached_token = self._token_cache[cache_key], and the freshness test on
\* the token read.  The subscript raises KeyError if the key is gone.
ReadStep(i) ==
    /\ flows[i].pc = "read"
    /\ flows' = [flows EXCEPT ![i] =
                    IF flows[i].key \notin DOMAIN cache
                        THEN [@ EXCEPT !.pc = "done", !.raised = "KeyError"]
                        ELSE IF FreshEnough(cache[flows[i].key], now)
                                 THEN [@ EXCEPT !.pc = "done",
                                                !.ret = Some(cache[flows[i].key])]
                                 ELSE [@ EXCEPT !.pc = "request"]]
    /\ UNCHANGED <<cache, calls, fetched, flowFrame>>

\* token = self._request_token(tenant_id, email, password)
RequestStep(i) ==
    /\ flows[i].pc = "request"
    /\ \E x \in LoginExchanges(flows[i].key[1], flows[i].key[2], flows[i].password) :
          LET token == RequestToken(flows[i].key[1], flows[i].key[2], x, now)
          IN  /\ flows' = [flows EXCEPT ![i].pc = "store", ![i].token = Some(token)]
              /\ fetched' = fetched \cup {<<flows[i].key, token>>}
    /\ UNCHANGED <<cache, calls, flowFrame>>

\* self._token_cache[cache_key] = token; return token
StoreStep(i) ==
    /\ flows[i].pc = "store"
    /\ cache' = CacheStore(cache, flows[i].key, flows[i].token[1])
    /\ flows' = [flows EXCEPT ![i].pc = "done", ![i].ret = flows[i].token]
    /\ UNCHANGED <<calls, fetched, flowFrame>>

\* del self._token_cache[cache_key]: KeyError if the key is gone.
DeleteStep(i) ==
    /\ flows[i].pc = "del"
    /\ IF flows[i].key \in DOMAIN cache
           THEN /\ cache' = Remove(cache, flows[i].key)
                /\ flows' = [flows EXCEPT ![i].pc = "done"]
           ELSE /\ cache' = cache
                /\ flows' = [flows EXCEPT ![i].pc = "done", ![i].raised = "KeyError"]
    /\ UNCHANGED <<calls, fetched, flowFrame>>

(***************************************************************************)
(* The URLs the client addresses.  A URL is the sequence of its parts      *)
(* between slashes, scheme and host first, as for base_url above.          *)
(***************************************************************************)
Environments == {"local", "staging", "production"}

\* Values of the TEST_ENV variable: unset, a tier in either case, another word.
EnvSettings == {None, Some("local"), Some("staging"), Some("PRODUCTION"), Some("qa")}

\* str.lower() on the values above.
Lower(str) == IF str = "PRODUCTION" THEN "production" ELSE str

\* Config.get_environment
Config_get_environment(setting) ==
    LET env_str == Lower(IF setting = None THEN "staging" ELSE setting[1])
    IN  IF env_str \in Environments THEN env_str ELSE "staging"

\* Config.API_ENDPOINTS
API_ENDPOINTS ==
    [env \in Environments |->
        CASE env = "local"      -> <<"http://localhost:8000", "api", "v1">>
          [] env = "staging"    -> <<"https://api.staging.workflowpro.com", "api", "v1">>
          [] env = "production" -> <<"https://api.workflowpro.com", "api", "v1">>]

\* Config.get_api_base_url
Config_get_api_base_url(setting) == API_ENDPOINTS[Config_get_environment(setting)]

MemberEmails == {"dev@company1.com"}

\* What each method of the client appends to self.base_url.
OperationPath(op, project_id, user_email) ==
    CASE op \in {"create_project", "list_projects"} ->
             <<"api", "v1", "projects">>
      [] op \in {"get_project", "update_project", "delete_project"} ->
             <<"api", "v1", "projects", project_id>>
      [] op = "add_team_member" ->
             <<"api", "v1", "projects", project_id, "members">>
      [] op = "remove_team_member" ->
             <<"api", "v1", "projects", project_id, "members", user_email>>
      [] op = "health_check" -> <<"health">>

\* f"{self.base_url}/..."
RequestUrl(c, op, project_id, user_email) ==
    c.base_url \o OperationPath(op, project_id, user_email)

NoneSent == [op |-> "none", base_url |-> <<>>, url |-> <<>>]

\* A fixture or a test builds its client on Config.get_api_base_url().
APIClient_for_environment(setting, token, tenant_id) ==
    /\ client' = NewClient(Config_get_api_base_url(setting), token, tenant_id)
    /\ clientLast' = [op |-> "__init__", token |-> token, tenant |-> tenant_id,
                      before |-> None,
                      supplied |-> [token |-> token, tenant |-> tenant_id]]
    /\ UNCHANGED <<authVars, req, pageVars, runVars, otherVars>>

\* A method of the client addresses its request.
SendRequest(op, project_id, user_email) ==
    /\ sent' = [op |-> op, base_url |-> client.base_url,
                 url |-> RequestUrl(client, op, project_id, user_email)]
    /\ UNCHANGED <<oldVars, dashVars, fixtureVars, flowVars, managerVars>>

(***************************************************************************)
(* AuthManager objects.  _token_cache is assigned in the class body; an    *)
(* object has an attribute of that name of its own only if something       *)
(* assigns self._token_cache, and self._token_cache denotes the object's   *)
(* own attribute if it has one and the class attribute (the variable       *)
(* cache) otherwise.  The module creates one object, auth_manager, when    *)
(* it is imported; tests create more.                                      *)
(***************************************************************************)
Managers == {"auth_manager", "auth"}

managerFrame ==
    <<now, last, apiVars, pageVars, runVars, dashVars, fixtureVars, flowVars,
      urlVars>>

\* Mutant of NewManager: __init__ gives the object a cache of its own.
NewManager_own_cache == [own |-> Some(EmptyCache)]

\* AuthManager.__init__ assigns config and api_base_url, never _token_cache.
NewManager == [own |-> None]

\* self._token_cache, read through object obj.
TokenCacheOf(obj, class_cache) ==
    IF obj.own = None THEN class_cache ELSE obj.own[1]

\* What each object sees as its cache.
Views(objs, class_cache) ==
    [m \in DOMAIN objs |-> TokenCacheOf(objs[m], class_cache)]

\* The latest call on an AuthManager object, kept in mgr.last:
\*   on       the object the method was called on
\*   before   what every object saw as its cache when the call began
\*   net      requests the call sent to the auth endpoint
NoManagerCall ==
    [op |-> "none", on |-> "", tenant |-> "", email |-> "", force |-> FALSE,
     before |-> <<>>, net |-> 0, result |-> None]

\* State after import: the singleton exists, nothing has been stored.
FirstManagers ==
    [objs |-> [m \in {"auth_manager"} |-> NewManager],
     storedBy |-> [k \in {} |-> ""],
     last |-> NoManagerCall]

ManagerCall(op, m, t, e, force) ==
    [NoManagerCall EXCEPT !.op = op, !.on = m, !.tenant = t, !.email = e,
                          !.force = force,
                          !.before = Views(mgr.objs, cache)]

\* The dict that self._token_cache denotes on object m becomes new_cache
\* (the dict is changed in place).
WriteThrough(m, new_cache, stored_by, call) ==
    IF mgr.objs[m].own = None
        THEN /\ cache' = new_cache
             /\ mgr' = [mgr EXCEPT !.storedBy = stored_by, !.last = call]
        ELSE /\ cache' = cache
             /\ mgr' = [mgr EXCEPT !.objs[m].own = Some(new_cache),
                                   !.storedBy = stored_by, !.last = call]

\* AuthManager()
AuthManager_init(m) ==
    /\ m \notin DOMAIN mgr.objs
    /\ mgr' = [mgr EXCEPT !.objs = [x \in DOMAIN mgr.objs \cup {m} |->
                                       IF x = m THEN NewManager ELSE mgr.objs[x]]]
    /\ UNCHANGED <<cache, calls, managerFrame>>

\* m.get_token(t, e, p, force)
Manager_get_token(m, t, e, p, force) ==
    /\ m \in DOMAIN mgr.objs
    /\ calls < MaxCalls
    /\ calls' = calls + 1
    /\ LET key == <<t, e>>
           c == TokenCacheOf(mgr.objs[m], cache)
           call == ManagerCall("get_token", m, t, e, force)
       IN  IF UseCached(c, key, force, now)
             THEN /\ cache' = cache
                  /\ mgr' = [mgr EXCEPT !.last = [call EXCEPT !.result = Some(c[key])]]
             ELSE \E x \in LoginExchanges(t, e, p) :
                    LET token == RequestToken(t, e, x, now) IN
                      WriteThrough(m, CacheStore(c, key, token),
                                   Put(mgr.storedBy, key, m),
                                   [call EXCEPT !.net = 1, !.result = Some(token)])
    /\ UNCHANGED managerFrame

\* m.invalidate_token(t, e)
Manager_invalidate_token(m, t, e) ==
    /\ m \in DOMAIN mgr.objs
    /\ calls < MaxCalls
    /\ calls' = calls + 1
    /\ LET key == <<t, e>>
           c == TokenCacheOf(mgr.objs[m], cache)
           call == ManagerCall("invalidate_token", m, t, e, FALSE)
       IN  IF key \in DOMAIN c
             THEN WriteThrough(m, Remove(c, key), Remove(mgr.storedBy, key), call)
             ELSE /\ cache' = cache
                  /\ mgr' = [mgr EXCEPT !.last = call]
    /\ UNCHANGED managerFrame

\* m.clear_cache()
Manager_clear_cache(m) ==
    /\ m \in DOMAIN mgr.objs
    /\ calls < MaxCalls
    /\ calls' = calls + 1
    /\ LET c == TokenCacheOf(mgr.objs[m], cache)
       IN  WriteThrough(m, CacheClear(c), [k \in {} |-> ""],
                        ManagerCall("clear_cache", m, "", "", FALSE))
    /\ UNCHANGED managerFrame

Init ==
    /\ cache = EmptyCache
    /\ now = 0
    /\ calls = 0
    /\ last = NoCall
    /\ req = NoRequest
    /\ client = FirstClient
    /\ clientLast = NoClientCall
    /\ page = LoginForm
    /\ ui = NoUi
    /\ run = NoRun
    /\ dash = NoDash
    /\ fx = NoTest
    /\ flows = [i \in Flows |-> IdleFlow]
    /\ fetched = {}
    /\ sent = NoneSent
    /\ mgr = FirstManagers

Next ==
    \/ \E u \in Users, p \in Passwords, f \in BOOLEAN :
          get_token(u[1], u[2], p, f)
    \/ \E tok \in RefreshArgs : refresh_token(tok)
    \/ \E u \in Users : invalidate_token(u[1], u[2])
    \/ clear_cache
    \/ Tick

Spec == Init /\ [][Next]_vars

\* AuthToken alone: the driver builds tokens and asks them whether they are
\* expired or valid, as time passes.
NextToken ==
    \/ \E tok \in TokenArgs : AuthToken_is_valid(tok)
    \/ \E tok \in TokenArgs : AuthToken_is_expired(tok)
    \/ Tick

SpecToken == Init /\ [][NextToken]_vars

\* AuthManager reached through the tenant registry, as the fixtures use it.
NextTenant ==
    \/ \E id \in TenantIds : get_tenant(id)
    \/ \E id \in TenantIds : get_tenant_auth(id)
    \/ \E u \in Users : invalidate_token(u[1], u[2])
    \/ Tick

SpecTenant == Init /\ [][NextTenant]_vars

\* The APIClient object alone: built, then re-pointed by its setters.
NextClient ==
    \/ \E b \in BaseUrls, tok \in Tokens, t \in DOMAIN TENANTS :
          APIClient_init(b, tok, t)
    \/ \E tok \in Tokens : set_token(tok)
    \/ \E t \in DOMAIN TENANTS : set_tenant(t)

SpecClient == Init /\ [][NextClient]_vars

\* Page objects alone, over a page that the application keeps changing.
TimeoutArgs == {None, Some(5000)}

NextPage ==
    \/ \E sel \in {TWO_FA_INPUT, ERROR_MESSAGE}, t \in TimeoutArgs : is_visible(sel, t)
    \/ \E sel \in {TWO_FA_INPUT, ERROR_MESSAGE}, t \in TimeoutArgs : assert_visible(sel, t)
    \/ \E text \in {<<"Invalid">>, <<"locked">>}, t \in TimeoutArgs :
          assert_text_contains(ERROR_MESSAGE, text, t)
    \/ \E text \in {<<"dashboard">>, <<"login">>} : assert_url_contains(text)
    \/ login_with_2fa("admin@company1.com", "password123", "123456")
    \/ ExpectResolves
    \/ PageStep

SpecPage == Init /\ [][NextPage]_vars

\* Scenarios and their cleanup alone.
NextCleanup ==
    \/ \E path \in DOMAIN CleanupPaths, body \in {"passed", "failed"} :
          \E tracked \in TrackedLists(path) : BodyEnds(path, body, tracked)
    \/ \E outcome \in DeleteOutcomes : CleanupDelete(outcome)

SpecCleanup == Init /\ [][NextCleanup]_vars

\* The dashboard alone: cards are rendered and checked.
NextDash ==
    \/ \E cards \in CardLists : Render(cards)
    \/ \E m \in Markers, idle \in BOOLEAN : verify_no_cross_tenant_data(m, idle)

SpecDash == Init /\ [][NextDash]_vars

\* A session of test items that use the browser fixtures.
NextFixture ==
    \/ \E name \in DOMAIN Requests : StartTest(name)
    \/ \E ok \in BOOLEAN : SetupStep(ok)
    \/ \E outcome \in {"passed", "failed"} : TestBody(outcome)
    \/ \E ok \in BOOLEAN : TeardownStep(ok)
    \/ EndTest
    \/ SessionEnd

SpecFixture == Init /\ [][NextFixture]_vars

\* Two flows that call get_token on the shared cache.
NextGetFlows ==
    \/ \E i \in Flows, u \in Users, p \in Passwords, f \in BOOLEAN :
          Flow_get_token(i, u[1], u[2], p, f)
    \/ \E i \in Flows : CheckStep(i)
    \/ \E i \in Flows : ReadStep(i)
    \/ \E i \in Flows : RequestStep(i)
    \/ \E i \in Flows : StoreStep(i)

SpecGetFlows == Init /\ [][NextGetFlows]_vars

\* Two flows that call get_token, invalidate_token and clear_cache.
NextFlows ==
    \/ \E i \in Flows, u \in Users, p \in Passwords, f \in BOOLEAN :
          Flow_get_token(i, u[1], u[2], p, f)
    \/ \E i \in Flows, u \in Users : Flow_invalidate_token(i, u[1], u[2])
    \/ \E i \in Flows : Flow_clear_cache(i)
    \/ \E i \in Flows : CheckStep(i)
    \/ \E i \in Flows : ReadStep(i)
    \/ \E i \in Flows : RequestStep(i)
    \/ \E i \in Flows : StoreStep(i)
    \/ \E i \in Flows : DeleteStep(i)

SpecFlows == Init /\ [][NextFlows]_vars

\* Clients built on the configured API base URL, and their requests.
NextUrl ==
    \/ \E setting \in EnvSettings, tok \in Tokens, t \in Tenants :
          APIClient_for_environment(setting, tok, t)
    \/ \E op \in OperationNames, id \in ProjectIds, m \in MemberEmails :
          SendRequest(op, id, m)

SpecUrl == Init /\ [][NextUrl]_vars

\* AuthManager used for one email address that two tenants share.
SharedEmail == "admin@company1.com"

KeyUsers == { <<t, SharedEmail>> : t \in Tenants }

NextKeys ==
    \/ \E u \in KeyUsers, p \in Passwords, f \in BOOLEAN :
          get_token(u[1], u[2], p, f)
    \/ \E u \in KeyUsers, p \in Passwords : get_auth_headers(u[1], u[2], p)
    \/ \E tok \in RefreshArgs : refresh_token(tok)
    \/ \E u \in KeyUsers : invalidate_token(u[1], u[2])
    \/ clear_cache

SpecKeys == Init /\ [][NextKeys]_vars

\* Logins alone: get_token with right and wrong passwords, as time passes.
NextLogin ==
    \/ \E u \in Users, p \in Passwords, f \in BOOLEAN :
          get_token(u[1], u[2], p, f)
    \/ Tick

SpecLogin == Init /\ [][NextLogin]_vars

\* Several AuthManager objects in one process.
NextManagers ==
    \/ \E m \in Managers : AuthManager_init(m)
    \/ \E m \in Managers, u \in Users, p \in Passwords, f \in BOOLEAN :
          Manager_get_token(m, u[1], u[2], p, f)
    \/ \E m \in Managers, u \in Users : Manager_invalidate_token(m, u[1], u[2])
    \/ \E m \in Managers : Manager_clear_cache(m)

SpecManagers == Init /\ [][NextManagers]_vars

\* APIClient alone.
NextApi ==
    \/ \E op \in OperationNames : Call(op)
    \/ \E outcome \in Outcomes : Attempt(outcome)

SpecApi == Init /\ [][NextApi]_vars

(***************************************************************************)
(* Properties of the token cache (specification Spec).                     *)
(***************************************************************************)
\* A step in which a method of AuthManager or AuthToken was invoked.
CallStep == calls' = calls + 1

SameKey(a, b) == a.tenant = b.tenant /\ a.email = b.email

\* get_token invoked twice running for one key, with valid credentials both
\* times, the second time without force_refresh.
SecondGetToken ==
    /\ CallStep
    /\ last.op = "get_token" /\ last'.op = "get_token"
    /\ SameKey(last, last')
    /\ ~ last'.force
    /\ ValidCredentials(last.tenant, last.email, last.password)
    /\ ValidCredentials(last'.tenant, last'.email, last'.password)

\* C1 as stated: whenever get_token is called twice in succession for a key
\* with valid credentials and without force_refresh (the first call having
\* returned a token with a non-empty access_token), the second call returns
\* the first call's token (same access_token) and sends no auth request.
C1_AsStated ==
    [][(SecondGetToken /\ last.result[1].access_token # "") =>
          /\ last'.result[1].access_token = last.result[1].access_token
          /\ last'.net = 0]_vars

\* C1 amended: the same, provided the first call's token has a non-empty
\* access_token and the second call is made while
\* now < expires_at - EXPIRY_BUFFER_SECONDS; the second call then returns the
\* very same token and sends no auth request.
C1_SecondCallReusesFreshToken ==
    [][(/\ SecondGetToken
        /\ last.result[1].access_token # ""
        /\ now < last.result[1].expires_at - 300) =>
          /\ last'.result = last.result
          /\ last'.net = 0]_vars

\* C1 witness: a second get_token for the same key, straight after the first,
\* answered from the cache.
C1_Witness ==
    /\ last.op = "get_token" /\ last.prev.op = "get_token"
    /\ last.prev.tenant = last.tenant /\ last.prev.email = last.email
    /\ ValidCredentials(last.tenant, last.email, last.password)
    /\ ~ last.force /\ last.net = 0 /\ last.result # None

\* C2: get_token with force_refresh always sends one auth request, even when
\* the cache held a fresh valid token for the key, and afterwards the cache
\* entry for the key is the token built from that exchange, which is also the
\* token returned.
C2_ForceRefreshFetchesAndStores ==
    [][(CallStep /\ last'.op = "get_token" /\ last'.force) =>
          /\ last'.net = 1
          /\ last'.outcome # "none"
          /\ last'.result # None
          /\ <<last'.tenant, last'.email>> \in DOMAIN cache'
          /\ cache'[<<last'.tenant, last'.email>>] = last'.result[1]
          /\ last'.result[1].expires_at \in {now + 300, now + 600, now + 3600}]_vars

\* C2 witness: a forced get_token that found a fresh valid token in the
\* cache and fetched all the same.
C2_Witness ==
    /\ last.op = "get_token" /\ last.force /\ last.fresh /\ last.net = 1
    /\ cache[<<last.tenant, last.email>>] = last.result[1]

\* C3: clear_cache leaves the cache empty, and a get_token that follows it
\* for a key the clear removed sends an auth request and returns and caches
\* the token built from that exchange.
C3_ClearThenGetTokenFetches ==
    [][CallStep =>
          /\ last'.op = "clear_cache" => DOMAIN cache' = {}
          /\ (/\ last.op = "clear_cache" /\ last'.op = "get_token"
              /\ <<last'.tenant, last'.email>> \in last.removed) =>
                 /\ last'.net = 1
                 /\ last'.outcome # "none"
                 /\ cache'[<<last'.tenant, last'.email>>] = last'.result[1]]_vars

\* C3 witness: a get_token without force_refresh, straight after a
\* clear_cache that removed its key, which fetched.
C3_Witness ==
    /\ last.op = "get_token" /\ ~ last.force /\ last.net = 1
    /\ last.prev.op = "clear_cache"
    /\ <<last.tenant, last.email>> \in last.prev.removed

\* C8: when the login exchange fails at the transport layer, get_token raises
\* nothing and returns the placeholder token: access_token
\* dummy_token_<tenant>_<email>, no refresh_token, expires_at = now + 3600,
\* tenant_id and user_email equal to the arguments.
C8_TransportFailureYieldsPlaceholder ==
    [][(CallStep /\ last'.op = "get_token" /\ last'.outcome = "transport_error") =>
          /\ last'.raised = ""
          /\ last'.result =
               << [access_token |-> "dummy_token_" \o last'.tenant \o "_" \o last'.email,
                   refresh_token |-> <<>>,
                   expires_at |-> now + 3600,
                   tenant_id |-> last'.tenant,
                   user_email |-> last'.email] >>]_vars

\* C8 witness: a get_token whose login exchange failed at the transport layer.
C8_Witness ==
    /\ last.op = "get_token" /\ last.outcome = "transport_error"
    /\ last.tenant = "company2"
    /\ last.result[1].access_token = "dummy_token_company2_admin@company2.com"

\* C9: when refresh_token is given a token that has a refresh token and the
\* refresh exchange fails, it returns that very token, raises nothing and
\* leaves the cache as it was.
C9_FailedRefreshReturnsStaleToken ==
    [][(/\ CallStep /\ last'.op = "refresh_token"
        /\ last'.outcome \in {"transport_error", "http_error"}) =>
          /\ last'.net = 1
          /\ last'.raised = ""
          /\ last'.result = last'.arg
          /\ cache' = cache]_vars

\* C9 witness: a refresh_token of a token carrying a refresh token whose
\* exchange failed.
C9_Witness ==
    /\ last.op = "refresh_token" /\ last.outcome = "transport_error"
    /\ last.arg[1].refresh_token \notin {<<>>, <<"">>}
    /\ last.result = last.arg

\* C10: refresh_token given a token whose refresh_token is None or "" raises
\* the "no refresh token" ValueError, sends no request and leaves the cache
\* as it was.
C10_NoRefreshTokenRaises ==
    [][(/\ CallStep /\ last'.op = "refresh_token"
        /\ last'.arg[1].refresh_token \in {<<>>, <<"">>}) =>
          /\ last'.raised = "ValueError"
          /\ last'.net = 0
          /\ last'.result = <<>>
          /\ cache' = cache]_vars

\* C10 witness: a refresh_token of a token whose refresh_token is the empty
\* string, made while the cache holds an entry.
C10_Witness ==
    /\ last.op = "refresh_token" /\ last.raised = "ValueError"
    /\ last.arg[1].refresh_token = <<"">>
    /\ DOMAIN cache # {}

(***************************************************************************)
(* Properties of AuthToken (specification SpecToken).                      *)
(***************************************************************************)
\* C4: is_valid() is true iff access_token is non-empty and now < expires_at;
\* is_expired() is true iff now >= expires_at; so at expires_at = now a token
\* is expired and not valid, and a token with an empty access_token is never
\* valid.
C4_ValidityAndExpiry ==
    [][CallStep =>
          /\ last'.op = "is_valid" =>
               /\ last'.ret <=> (/\ last'.arg[1].access_token # ""
                                 /\ now < last'.arg[1].expires_at)
               /\ last'.arg[1].expires_at = now => ~ last'.ret
               /\ last'.arg[1].access_token = "" => ~ last'.ret
          /\ last'.op = "is_expired" =>
               /\ last'.ret <=> now >= last'.arg[1].expires_at
               /\ last'.arg[1].expires_at = now => last'.ret]_vars

\* C4 witness: is_valid() asked of a token with a non-empty access_token at
\* the very instant it expires (the first call, made at time 0).
C4_Witness ==
    /\ calls = 1 /\ now = 0
    /\ last.op = "is_valid" /\ last.arg[1].access_token # ""
    /\ last.arg[1].expires_at = 0 /\ ~ last.ret

(***************************************************************************)
(* Properties of APIClient (specification SpecApi).                        *)
(***************************************************************************)
Attempts == Len(req.history)

StatusesOf(h) == [i \in DOMAIN h |-> h[i].status]

\* An attempt that failed in a way the retry policy names: a status of the
\* retry set, or a connection error.
TransientFailure(o) ==
    \/ o.kind = "response" /\ o.status \in {429, 500, 502, 503, 504}
    \/ o.kind \in {"connect_error", "read_error"}

ResourceCall == req.op \notin {"none", "health_check"}

\* C5 as stated: no request to the resource collection is attempted more
\* than 3 times; a third failed attempt is the last one.
C5_AsStated == ResourceCall => Attempts <= 3

\* C5 amended: no request to the resource collection is attempted more than
\* 4 times (the first attempt and the 3 retries of Retry(total=3)): when
\* attempts keep failing with a status of the retry set or a connection
\* error, the fourth failed attempt is the last one, and a call whose last
\* attempt failed that way ends by raising to the caller.
C5_AtMostFourAttempts ==
    ResourceCall =>
        /\ Attempts <= 4
        /\ Attempts = 4 => req.phase = "done"
        /\ (req.phase = "done" /\ TransientFailure(req.history[Attempts])) =>
               /\ req.raised \in {"RetryError", "ConnectionError", "HTTPError"}
               /\ req.value = <<>>

\* C5 witness: a GET answered 503 four times over, given up with an error.
C5_Witness ==
    /\ req.op = "list_projects" /\ req.phase = "done"
    /\ StatusesOf(req.history) = <<503, 503, 503, 503>>
    /\ req.raised = "RetryError"

\* C6: a get_project whose first two attempts are answered 503 goes on to a
\* third attempt, and when that one succeeds the call returns the body of
\* the successful response without raising, as a first-attempt success does.
C6_GetSucceedsOnThirdAttempt ==
    req.op = "get_project" =>
        /\ StatusesOf(req.history) \in {<<503>>, <<503, 503>>} =>
               req.phase = "sending" /\ req.raised = ""
        /\ StatusesOf(req.history) \in {<<200>>, <<503, 503, 200>>} =>
               /\ req.phase = "done"
               /\ req.raised = ""
               /\ req.value = <<req.history[Attempts].body>>

\* C6 witness: get_project answered 503, 503, 200 has returned the body.
C6_Witness ==
    /\ req.op = "get_project" /\ req.phase = "done"
    /\ StatusesOf(req.history) = <<503, 503, 200>>
    /\ req.value = <<"Proj-7F3A">>

\* An error status outside the retry set.
NonRetryableError(o) ==
    /\ o.kind = "response"
    /\ 400 <= o.status /\ o.status < 600
    /\ o.status \notin {429, 500, 502, 503, 504}

\* C7 as stated: for every CRUD operation, a response with an error status
\* outside the retry set ends the call at once with an HTTP error: no
\* attempt follows it (one attempt in all when it answers the first), and
\* nothing is returned.
C7_AsStated ==
    ResourceCall =>
        \A i \in DOMAIN req.history :
            NonRetryableError(req.history[i]) =>
                /\ i = Attempts
                /\ req.phase = "done"
                /\ req.raised = "HTTPError"
                /\ req.value = <<>>

\* A 413 response carrying a Retry-After header, when it answers attempt i
\* of a GET, PUT or DELETE request that has retries left.
RetriedOnRetryAfter(i) ==
    /\ req.history[i].status = 413
    /\ req.history[i].retry_after
    /\ req.op \notin {"create_project", "add_team_member"}
    /\ i <= 3

\* C7 amended: the same, except for a 413 response that carries a
\* Retry-After header and answers a GET, PUT or DELETE request with retries
\* left, which is retried.
C7_NonRetryableErrorRaisesAtOnce ==
    ResourceCall =>
        \A i \in DOMAIN req.history :
            (NonRetryableError(req.history[i]) /\ ~ RetriedOnRetryAfter(i)) =>
                /\ i = Attempts
                /\ req.phase = "done"
                /\ req.raised = "HTTPError"
                /\ req.value = <<>>

\* C7 witness: delete_project answered 404 on its first attempt has raised
\* HTTPError after that one attempt.
C7_Witness ==
    /\ req.op = "delete_project" /\ req.phase = "done"
    /\ StatusesOf(req.history) = <<404>>
    /\ req.raised = "HTTPError"

\* C15: invalidate_token(t, e) raises nothing and leaves the cache without an
\* entry for (t, e) and with every other entry as it was (so it changes
\* nothing when (t, e) had no entry); a get_token for (t, e) that follows it
\* sends a request to the auth endpoint.
C15_InvalidateRemovesOneEntry ==
    [][/\ (CallStep /\ last'.op = "invalidate_token") =>
            /\ DOMAIN cache' = DOMAIN cache \ { <<last'.tenant, last'.email>> }
            /\ \A k \in DOMAIN cache' : cache'[k] = cache[k]
            /\ last'.raised = ""
       /\ (/\ CallStep
           /\ last.op = "invalidate_token" /\ last'.op = "get_token"
           /\ SameKey(last, last')) => last'.net = 1]_vars

\* One of two cached entries has been invalidated; the other is still there.
C15_Witness ==
    /\ last.op = "invalidate_token" /\ last.raised = ""
    /\ last.removed = { <<last.tenant, last.email>> }
    /\ Cardinality(DOMAIN cache) = 1
    /\ <<last.tenant, last.email>> \notin DOMAIN cache

\* C16: a get_token call sends exactly one request to the auth endpoint and
\* stores the token it gets under the key, unless force_refresh is false and
\* the cache holds for the key a valid token (non-empty, not expired) with
\* now < expires_at - 300: then it sends none, returns that token and leaves
\* the cache alone.  A valid token within 300 seconds of its expiry is thus
\* fetched again and overwritten.
C16_OneFetchUnlessFreshInCache ==
    [][(CallStep /\ last'.op = "get_token") =>
          LET key == <<last'.tenant, last'.email>>
              reuse == /\ ~ last'.force
                       /\ key \in DOMAIN cache
                       /\ cache[key].access_token # ""
                       /\ now < cache[key].expires_at
                       /\ now < cache[key].expires_at - 300
          IN  /\ last'.raised = ""
              /\ reuse => /\ last'.net = 0
                          /\ last'.result = Some(cache[key])
                          /\ cache' = cache
              /\ ~ reuse => /\ last'.net = 1
                            /\ DOMAIN cache' = DOMAIN cache \cup {key}
                            /\ cache'[key] = last'.result[1]
                            /\ \A k \in DOMAIN cache \ {key} : cache'[k] = cache[k]]_vars

\* get_token without force_refresh found a valid token for its key within 300
\* seconds of expiry, and fetched a new one.
C16_Witness ==
    /\ last.op = "get_token" /\ ~ last.force
    /\ last.valid /\ ~ last.fresh
    /\ last.net = 1
    /\ cache[<<last.tenant, last.email>>] = last.result[1]

\* C18: a successful refresh_token(token) returns a new token for the token's
\* tenant and user and stores that same token under (token.tenant_id,
\* token.user_email), whether or not the cache held an entry for the key, and
\* touches no other entry; the new token carries the response's refresh token,
\* or the old token's when the response has none.
C18_RefreshStoresAndReturnsNewToken ==
    [][(CallStep /\ last'.op = "refresh_token" /\ last'.outcome = "ok") =>
          LET tok  == last'.arg[1]
              key  == <<tok.tenant_id, tok.user_email>>
              new  == last'.result[1]
              data == last'.response[1]
          IN  /\ last'.raised = "" /\ last'.net = 1
              /\ DOMAIN cache' = DOMAIN cache \cup {key}
              /\ cache'[key] = new
              /\ \A k \in DOMAIN cache \ {key} : cache'[k] = cache[k]
              /\ new.tenant_id = tok.tenant_id /\ new.user_email = tok.user_email
              /\ new.access_token = Get(data, "access_token", "")
              /\ new.expires_at = now + Get(data, "expires_in", 3600)
              /\ new.refresh_token =
                   IF "refresh_token" \in DOMAIN data
                       THEN Some(data["refresh_token"]) ELSE tok.refresh_token]_vars

\* A token whose key had been invalidated was refreshed with a response that
\* carries no refresh token: it is back in the cache with the old refresh
\* token.
C18_Witness ==
    /\ last.op = "refresh_token" /\ last.outcome = "ok"
    /\ last.prev.op = "invalidate_token"
    /\ last.prev.removed = { <<last.tenant, last.email>> }
    /\ "refresh_token" \notin DOMAIN last.response[1]
    /\ last.arg[1].refresh_token = Some("r0")
    /\ cache[<<last.tenant, last.email>>] = last.result[1]
    /\ last.result[1].refresh_token = Some("r0")

\* A response whose status is in the constructor's status_forcelist.
ForcelistResponse(o) ==
    o.kind = "response" /\ o.status \in {429, 500, 502, 503, 504}

\* The request goes on after its attempt i.
RetriedAfter(i) == i < Attempts \/ req.phase = "sending"

\* C17 as stated: whatever the HTTP method of the operation, a response with
\* a status in {429, 500, 502, 503, 504} that answers one of the first three
\* attempts is followed by another attempt.
C17_AsStated ==
    ResourceCall =>
        \A i \in DOMAIN req.history :
            (ForcelistResponse(req.history[i]) /\ i <= 3) => RetriedAfter(i)

\* C17 amended: that holds of the operations sent with GET, PUT or DELETE
\* (get_project, list_projects, update_project, delete_project,
\* remove_team_member).  create_project and add_team_member, sent with POST,
\* are not retried on a response: a response with such a status ends the
\* call at once with HTTPError.
C17_StatusRetryOnlyForIdempotentMethods ==
    ResourceCall =>
        \A i \in DOMAIN req.history :
            ForcelistResponse(req.history[i]) =>
                IF req.op \in {"create_project", "add_team_member"}
                    THEN /\ i = Attempts
                         /\ req.phase = "done"
                         /\ req.raised = "HTTPError"
                         /\ req.value = None
                    ELSE /\ i <= 3 => RetriedAfter(i)
                         /\ i > 3 => /\ i = Attempts /\ i = 4
                                     /\ req.phase = "done"
                                     /\ req.raised = "RetryError"

\* create_project answered 503 on its first attempt has raised HTTPError after
\* that one attempt.
C17_Witness ==
    /\ req.op = "create_project" /\ req.phase = "done"
    /\ StatusesOf(req.history) = <<503>>
    /\ req.raised = "HTTPError"

(***************************************************************************)
(* Properties of the tenant registry (specification SpecTenant).           *)
(***************************************************************************)
\* C11: looking up a tenant id that is not in Config.TENANTS raises
\* ValueError("Unknown tenant: <id>") and yields no configuration;
\* get_tenant_auth with such an id raises the same error, sends nothing to the
\* auth endpoint, returns no token or headers and leaves the cache as it was.
C11_UnknownTenantFailsFast ==
    [][(/\ CallStep
        /\ last'.op \in {"get_tenant", "get_tenant_auth"}
        /\ last'.tenant \notin DOMAIN TENANTS)
       => /\ last'.raised = "ValueError"
          /\ last'.message = "Unknown tenant: " \o last'.tenant
          /\ last'.config = None
          /\ last'.result = None /\ last'.headers = None
          /\ last'.net = 0
          /\ cache' = cache]_vars

\* get_tenant_auth with an unregistered id has failed while the cache held a
\* token that an earlier get_tenant_auth fetched.
C11_Witness ==
    /\ last.op = "get_tenant_auth" /\ last.tenant = "unknown_company"
    /\ last.raised = "ValueError"
    /\ last.prev.op = "get_tenant_auth" /\ last.prev.tenant = "company1"
    /\ <<"company1", "admin@company1.com">> \in DOMAIN cache

(***************************************************************************)
(* Properties of the APIClient object (specification SpecClient).          *)
(***************************************************************************)
HeaderNames == {"Authorization", "X-Tenant-ID", "Content-Type"}

\* C12: the client's header dict always consists of exactly Authorization =
\* "Bearer " + the latest token supplied, X-Tenant-ID = the latest tenant id
\* supplied = client.tenant_id, and Content-Type = application/json; set_token
\* rewrites Authorization and nothing else, set_tenant rewrites tenant_id and
\* X-Tenant-ID and nothing else.
C12_HeadersFollowLatestTokenAndTenant ==
    /\ DOMAIN client.headers = HeaderNames
    /\ client.headers["Authorization"] = "Bearer " \o clientLast.supplied.token
    /\ client.headers["X-Tenant-ID"] = clientLast.supplied.tenant
    /\ client.tenant_id = clientLast.supplied.tenant
    /\ client.headers["Content-Type"] = "application/json"
    /\ clientLast.op = "set_token" =>
         /\ client.tenant_id = clientLast.before[1].tenant_id
         /\ client.base_url = clientLast.before[1].base_url
         /\ \A h \in HeaderNames \ {"Authorization"} :
               client.headers[h] = clientLast.before[1].headers[h]
    /\ clientLast.op = "set_tenant" =>
         /\ client.base_url = clientLast.before[1].base_url
         /\ \A h \in HeaderNames \ {"X-Tenant-ID"} :
               client.headers[h] = clientLast.before[1].headers[h]

\* set_tenant has moved a client, whose token set_token had replaced, to
\* another tenant.
C12_Witness ==
    /\ clientLast.op = "set_tenant"
    /\ clientLast.tenant = "company2"
    /\ clientLast.before[1].tenant_id = "company1"
    /\ clientLast.supplied.token = "new_token"
    /\ clientLast.before[1].headers["Authorization"] = "Bearer new_token"

(***************************************************************************)
(* Properties of the page objects (specification SpecPage).                *)
(***************************************************************************)
\* The step in which the wait of the call in progress ends.
WaitEnds(ops) == ui.phase = "waiting" /\ ui'.phase = "done" /\ ui.op \in ops

\* The step in which the call in progress goes on waiting.
WaitGoesOn(ops) ==
    ui.phase = "waiting" /\ ui'.phase = "waiting" /\ ui' # ui /\ ui.op \in ops

\* What the call in progress waits for, read off the page.
ConditionOnPage ==
    IF ui.op = "assert_text_contains"
        THEN /\ ui.selector \in DOMAIN page.text
             /\ Contains(page.text[ui.selector], ui.text)
        ELSE ui.selector \in page.visible

\* The timeout the call in progress was asked to observe.
RequestedTimeout == IF ui.timeout = None THEN ELEMENT_TIMEOUT ELSE ui.timeout[1]

\* C13: is_visible never raises; it returns True when the element is visible
\* at some moment before the timeout has run out and False once the timeout
\* has run out.  assert_visible and assert_text_contains wait in the same way
\* for as long, return no boolean, and raise AssertionError once the timeout
\* has run out.  None of the three goes on waiting while its condition holds
\* or after its timeout.
C13_IsVisibleReturnsAssertsRaise ==
    [][/\ WaitEnds({"is_visible"}) =>
            /\ ui'.raised = ""
            /\ ui'.ret \in {Some(TRUE), Some(FALSE)}
            /\ ui'.ret = Some(TRUE) => ConditionOnPage /\ ui.waited <= RequestedTimeout
            /\ ui'.ret = Some(FALSE) => ui.waited >= RequestedTimeout
            /\ (ConditionOnPage /\ ui.waited < RequestedTimeout) => ui'.ret = Some(TRUE)
       /\ WaitEnds({"assert_visible", "assert_text_contains"}) =>
            /\ ui'.ret = None
            /\ ui'.raised \in {"", "AssertionError"}
            /\ ui'.raised = "" => ConditionOnPage /\ ui.waited <= RequestedTimeout
            /\ ui'.raised = "AssertionError" => ui.waited >= RequestedTimeout
            /\ (ConditionOnPage /\ ui.waited < RequestedTimeout) => ui'.raised = ""
       /\ WaitGoesOn({"is_visible", "assert_visible", "assert_text_contains"}) =>
            ~ ConditionOnPage /\ ui.waited < RequestedTimeout]_vars

\* is_visible, called without a timeout, has returned False after waiting
\* ELEMENT_TIMEOUT milliseconds for an element that did not show.
C13_Witness ==
    /\ ui.op = "is_visible" /\ ui.phase = "done"
    /\ ui.timeout = None /\ ui.waited = ELEMENT_TIMEOUT
    /\ ~ ui.matched /\ ui.ret = Some(FALSE) /\ ui.raised = ""

\* C19 as stated: assert_url_contains raises only once the timeout of
\* assert_visible and assert_text_contains has run out.
C19_AsStated ==
    (ui.op = "assert_url_contains" /\ ui.raised = "AssertionError")
        => ui.waited >= ELEMENT_TIMEOUT

\* C19: assert_url_contains does not wait.  It tests the URL once, at the
\* instant of the call, passes if the URL contains the text at that instant
\* and raises AssertionError at once if it does not.
C19_UrlTestedOnceAtCall ==
    [][(ui'.op = "assert_url_contains" /\ ui' # ui) =>
          /\ ui.phase # "waiting" /\ ui'.phase = "done"
          /\ ui'.waited = 0
          /\ page' = page
          /\ ui'.raised = IF Contains(page.url, ui'.text) THEN "" ELSE "AssertionError"]_vars

\* assert_url_contains("dashboard") has raised, and the page reached the
\* dashboard afterwards.
C19_Witness ==
    /\ ui.op = "assert_url_contains" /\ ui.text = <<"dashboard">>
    /\ ui.raised = "AssertionError" /\ ui.waited = 0
    /\ Contains(page.url, <<"dashboard">>)

\* The fills and clicks of login_with_2fa after the credential submit.
SecondFactorSteps(u) == SubSeq(u.actions, 4, Len(u.actions))

\* C20: once login_with_2fa has submitted the credentials it returns normally,
\* and it has filled TWO_FA_INPUT with the code and clicked TWO_FA_SUBMIT if
\* the input showed before 5000 ms of waiting had passed; it has done neither
\* if the input did not show in that time.  It does not go on waiting while
\* the input shows or after the 5000 ms.
C20_SecondFactorIffPromptInTime ==
    [][/\ WaitEnds({"login_with_2fa"}) =>
            /\ ui'.raised = ""
            /\ SubSeq(ui'.actions, 1, 3) = ui.actions
            /\ SecondFactorSteps(ui') \in
                 { <<>>, << Fill(TWO_FA_INPUT, ui.text[1]), Click(TWO_FA_SUBMIT) >> }
            /\ SecondFactorSteps(ui') # <<>> =>
                 (TWO_FA_INPUT \in page.visible /\ ui.waited <= TwoFaTimeoutMs)
            /\ (TWO_FA_INPUT \in page.visible /\ ui.waited < TwoFaTimeoutMs) =>
                 SecondFactorSteps(ui') # <<>>
            /\ TWO_FA_INPUT \notin page.visible =>
                 (SecondFactorSteps(ui') = <<>> /\ ui.waited >= TwoFaTimeoutMs)
       /\ WaitGoesOn({"login_with_2fa"}) =>
            (TWO_FA_INPUT \notin page.visible /\ ui.waited < TwoFaTimeoutMs)]_vars

\* login_with_2fa has returned without touching the second-factor form: the
\* prompt did not show during the wait, and shows now.
C20_Witness ==
    /\ ui.op = "login_with_2fa" /\ ui.phase = "done" /\ ui.raised = ""
    /\ Len(ui.actions) = 3 /\ ui.waited = TwoFaTimeoutMs /\ ~ ui.matched
    /\ page = TwoFaPrompt

(***************************************************************************)
(* Properties of the cleanup paths (specification SpecCleanup).            *)
(***************************************************************************)
\* C14: on every cleanup path, whatever the deletes do, the scenario is
\* reported with the result of its body (pass stays pass, fail stays fail),
\* and every tracked project has been attempted.
C14_CleanupNeverChangesResult ==
    run.phase = "reported" =>
        /\ run.result = run.body
        /\ run.attempted = run.tracked

(***************************************************************************)
(* Properties of the dashboard (specification SpecDash).                   *)
(***************************************************************************)
\* The cards on the dashboard whose text, None read as empty, contains the
\* marker of the latest check.
CardsWithMarker ==
    { i \in 1..Len(dash.cards) :
        LET text == IF dash.cards[i] = None THEN <<>> ELSE dash.cards[i][1]
        IN  \E k \in 0..(Len(text) - Len(dash.marker)) :
                SubSeq(text, k + 1, k + Len(dash.marker)) = dash.marker }

\* C21: when verify_no_cross_tenant_data(marker) returns, it returns True
\* if and only if no rendered project card has text containing the marker,
\* a card without text counting as the empty string; so it returns True
\* when there are no cards.  It stops reading at the first card that
\* contains the marker, and reads every card otherwise.
C21_TrueIffNoCardContainsMarker ==
    (dash.op = "verify_no_cross_tenant_data" /\ dash.raised = "") =>
        /\ dash.ret = Some(CardsWithMarker = {})
        /\ dash.cards = <<>> => dash.ret = Some(TRUE)
        /\ CardsWithMarker # {} =>
               /\ dash.examined \in CardsWithMarker
               /\ \A i \in CardsWithMarker : dash.examined <= i
        /\ CardsWithMarker = {} => dash.examined = Len(dash.cards)

\* A card without text is followed by a card of the other tenant: False.
C21_Witness ==
    /\ dash.op = "verify_no_cross_tenant_data"
    /\ dash.cards = <<None, Some(<<"Company2", "Launch">>)>>
    /\ dash.marker = <<"Company2">>
    /\ dash.ret = Some(FALSE)
    /\ dash.examined = 2

AllFlowsAtRest == \A i \in Flows : flows[i].pc \in {"idle", "done"}

FetchedKeys == { f[1] : f \in fetched }

\* C23: with two flows running get_token under any interleaving, for the
\* same key or for different keys, no cache update is lost: every entry of
\* the cache is a token that was fetched for its key, and once the calls
\* have completed the cache holds an entry for every key that was fetched
\* and every call has returned a token.
C23_NoLostUpdate ==
    /\ \A k \in DOMAIN cache : <<k, cache[k]>> \in fetched
    /\ AllFlowsAtRest =>
          /\ \A k \in FetchedKeys : k \in DOMAIN cache
          /\ \A i \in Flows :
                flows[i].pc = "done" =>
                    flows[i].raised = "" /\ flows[i].ret # None

\* Both flows asked for the same key without force_refresh and both
\* fetched, although each fetched a token the other could have reused: the
\* calls overlapped.  The cache holds the token of one of them.
C23_Witness ==
    /\ AllFlowsAtRest
    /\ \A i \in Flows :
          /\ flows[i].op = "get_token" /\ ~ flows[i].force
          /\ flows[i].token # None
          /\ FreshEnough(flows[i].token[1], now)
    /\ flows[1].key = flows[2].key
    /\ flows[1].token # flows[2].token
    /\ cache[flows[1].key] = flows[1].token[1]

\* C24: get_token and invalidate_token complete normally whatever another
\* flow does to the cache meanwhile: no call ends in a missing-key error.
C24_NoMissingKeyError ==
    \A i \in Flows : flows[i].raised = ""

(***************************************************************************)
(* Properties of the request URLs (specification SpecUrl).                 *)
(***************************************************************************)
ProjectOperations == OperationNames \ {"health_check"}

ApiHosts == { API_ENDPOINTS[env][1] : env \in Environments }

\* The places in a URL where the parts "api", "v1" follow one another.
PrefixPlaces(url) ==
    { i \in 1..(Len(url) - 1) : url[i] = "api" /\ url[i + 1] = "v1" }

\* C25: a client built on Config.get_api_base_url() addresses every
\* project request to <api host>/api/v1/projects[/...]: the /api/v1 prefix
\* occurs exactly once in the URL, right after the host, in every tier.
C25_PrefixExactlyOnce ==
    (/\ sent.op \in ProjectOperations
     /\ sent.base_url \in { API_ENDPOINTS[env] : env \in Environments }) =>
        /\ sent.url[1] \in ApiHosts
        /\ SubSeq(sent.url, 2, 4) = <<"api", "v1", "projects">>
        /\ Cardinality(PrefixPlaces(sent.url)) = 1

(***************************************************************************)
(* Properties of the cache keys (specification SpecKeys).                  *)
(***************************************************************************)
\* C26: every cache entry under key (t, e) is a token of tenant t and user
\* e, whatever get_token, get_auth_headers, refresh_token,
\* invalidate_token and clear_cache calls came before; so the token that
\* get_token(t, e, ...) returns and the headers that
\* get_auth_headers(t, e, ...) returns belong to tenant t and user e, also
\* when another tenant has a user with the same email.
C26_EntriesMatchTheirKey ==
    /\ \A k \in DOMAIN cache :
          cache[k].tenant_id = k[1] /\ cache[k].user_email = k[2]
    /\ (last.op \in {"get_token", "get_auth_headers"} /\ last.raised = "") =>
          /\ last.result # None
          /\ last.result[1].tenant_id = last.tenant
          /\ last.result[1].user_email = last.email
    /\ (last.op = "get_auth_headers" /\ last.raised = "") =>
          /\ last.headers # None
          /\ last.headers[1]["X-Tenant-ID"] = last.tenant
          /\ last.headers[1]["Authorization"] =
                 "Bearer " \o last.result[1].access_token

\* Both tenants hold a token for the shared email, and get_token for the
\* second tenant was just answered from the cache.
C26_Witness ==
    /\ DOMAIN cache = { <<"company1", "admin@company1.com">>,
                        <<"company2", "admin@company1.com">> }
    /\ last.op = "get_token" /\ last.net = 0
    /\ last.tenant = "company2" /\ last.email = "admin@company1.com"
    /\ last.result = Some(cache[<<"company2", "admin@company1.com">>])
    /\ cache[<<"company1", "admin@company1.com">>].access_token = "tok1"

(***************************************************************************)
(* Properties of logins (specification SpecLogin).                         *)
(***************************************************************************)
\* The key of the get_token call that the step makes.
CalledKey == <<last'.tenant, last'.email>>

GetTokenStep == CallStep /\ last'.op = "get_token"

FailedOutcomes == {"http_error", "transport_error"}

\* C27: a cache hit in get_token depends on (tenant_id, email) alone: once
\* a token is cached for the key, a call without force_refresh, with
\* whatever password, returns that token and sends no auth request for as
\* long as the entry is fresh (non-empty access token, more than
\* EXPIRY_BUFFER_SECONDS before its expiry).
C27_CacheHitIgnoresPassword ==
    (last.op = "get_token" /\ ~ last.force /\ last.fresh) =>
        /\ last.net = 0
        /\ last.raised = ""
        /\ <<last.tenant, last.email>> \in DOMAIN cache
        /\ last.result = Some(cache[<<last.tenant, last.email>>])

\* A token obtained with the right password is handed to a call that gave
\* a wrong one.
C27_Witness ==
    /\ last.op = "get_token" /\ ~ last.force /\ last.net = 0
    /\ last.password = "wrong"
    /\ last.result # None
    /\ last.result[1].access_token = "tok1"

\* C28: a placeholder token is cached like a real one: the failed call
\* stores it, and every later get_token for the key without force_refresh,
\* made while now < expires_at - 300, returns the placeholder and sends no
\* auth request, whether or not the endpoint would answer by now.
C28_PlaceholderIsCachedAndReused ==
    [][/\ (GetTokenStep /\ last'.outcome \in FailedOutcomes) =>
              /\ CalledKey \in DOMAIN cache'
              /\ last'.result = Some(cache'[CalledKey])
       /\ (/\ GetTokenStep
           /\ ~ last'.force
           /\ CalledKey \in DOMAIN cache
           /\ cache[CalledKey].access_token =
                  "dummy_token_" \o last'.tenant \o "_" \o last'.email
           /\ now < cache[CalledKey].expires_at - 300) =>
              /\ last'.net = 0
              /\ last'.result = Some(cache[CalledKey])
              /\ cache' = cache]_vars

\* The cached placeholder answers a login that the endpoint would accept.
C28_Witness ==
    /\ last.op = "get_token" /\ ~ last.force /\ last.net = 0
    /\ ValidCredentials(last.tenant, last.email, last.password)
    /\ last.result # None
    /\ last.result[1].access_token =
           "dummy_token_" \o last.tenant \o "_" \o last.email

\* C29: get_token returns the placeholder token, without raising, when the
\* login exchange fails in transport and also when the endpoint answers
\* with an HTTP error status: every failed exchange yields a token that
\* is_valid() accepts, so no authentication failure reaches the caller.
C29_FailedLoginYieldsValidPlaceholder ==
    [][(GetTokenStep /\ last'.outcome \in FailedOutcomes) =>
          /\ last'.raised = ""
          /\ last'.result # None
          /\ last'.result[1].access_token =
                 "dummy_token_" \o last'.tenant \o "_" \o last'.email
          /\ last'.result[1].access_token # ""
          /\ now' < last'.result[1].expires_at]_vars

\* A login with a wrong password, answered with an HTTP error status.
C29_Witness ==
    /\ last.op = "get_token" /\ last.outcome = "http_error"
    /\ last.password = "wrong"
    /\ last.raised = ""
    /\ last.result # None
    /\ last.result[1].access_token =
           "dummy_token_" \o last.tenant \o "_" \o last.email

(***************************************************************************)
(* Properties of several AuthManager objects (specification SpecManagers). *)
(***************************************************************************)
\* What object m sees as its cache now.
Seen(m) == IF mgr.objs[m].own = None THEN cache ELSE mgr.objs[m].own[1]

ManagerKey == <<mgr.last.tenant, mgr.last.email>>

\* The entry some object saw for the key, fresh, when the latest call began.
FreshBefore ==
    { mgr.last.before[m][ManagerKey] :
        m \in { x \in DOMAIN mgr.last.before :
                  /\ ManagerKey \in DOMAIN mgr.last.before[x]
                  /\ mgr.last.before[x][ManagerKey].access_token # ""
                  /\ now < mgr.last.before[x][ManagerKey].expires_at - 300 } }

\* C30: the token cache is one map shared by all AuthManager objects of
\* the process: every object sees the same entries; a token cached
\* through one object is returned by get_token on any other object
\* without an auth request; and after clear_cache or invalidate_token on
\* any object the entries are gone for every object.
C30_OneCacheForAllManagers ==
    /\ \A m \in DOMAIN mgr.objs : Seen(m) = cache
    /\ (mgr.last.op = "get_token" /\ ~ mgr.last.force /\ FreshBefore # {}) =>
          /\ mgr.last.net = 0
          /\ mgr.last.result # None
          /\ mgr.last.result[1] \in FreshBefore
    /\ mgr.last.op = "clear_cache" =>
          \A m \in DOMAIN mgr.objs : Seen(m) = EmptyCache
    /\ mgr.last.op = "invalidate_token" =>
          \A m \in DOMAIN mgr.objs : ManagerKey \notin DOMAIN Seen(m)

\* get_token on one object is answered with the token another object cached.
C30_Witness ==
    /\ mgr.last.op = "get_token" /\ mgr.last.net = 0
    /\ mgr.last.on = "auth"
    /\ ManagerKey \in DOMAIN mgr.storedBy
    /\ mgr.storedBy[ManagerKey] = "auth_manager"
    /\ mgr.last.result = Some(cache[ManagerKey])

====
